---- MODULE Spec2Model ----
(***************************************************************************)
(* The reconciliation engine of mem0-ts (packages/core/src/memory.ts) with *)
(* its in-memory history log (packages/core/src/history.ts), driven        *)
(* against an honest Semantic Store port (conjunctive exact-match filter,  *)
(* as QdrantVectorStore._createFilter builds it).                          *)
(*                                                                         *)
(* One engine call is in flight at a time.  A call advances in steps, one  *)
(* per iteration of the handler's loops; every collaborator call a step    *)
(* makes is appended to `log`, and a step may be told which port throws.   *)
(***************************************************************************)
EXTENDS Integers, Sequences, FiniteSets, TLC

VARIABLES
  store,            \* Semantic Store: real id -> [vector, payload]
  hist,             \* InMemoryHistoryManager.store: memoryId -> entries
  db,               \* Memory.db: the class of the history manager
  caller,           \* the filters and metadata objects the caller keeps
  tasks,            \* calls that run concurrently, each at one of its awaits
  backend,          \* the collection (index) of the store's server
  now,              \* the wall clock read by new Date()
  nextId,           \* number of ids minted by randomUUID() so far
  ops,              \* number of mutating engine calls started
  pc,               \* position of the call in flight
  op,               \* the operation in flight (or just finished)
  infer,            \* add: the infer flag of the call
  outcome,          \* "pending", "ok", or the kind of error thrown
  results,          \* the value returned (a list; get: <<>> stands for null)
  log,              \* collaborator calls made by this call, in order
  pre,              \* store and history when the call started
  metadata,         \* add: the metadata object after line 59-61
  filters,          \* add/search: the filters object after line 59-61
  msgs,             \* add: parsedMessages
  facts,            \* _addToVectorStore: facts
  newEmbeddings,    \* _addToVectorStore: keys of the embedding cache
  existingMemories, \* _addToVectorStore: existingMemories, then unique
  idMap,            \* _addToVectorStore: temporary id -> real id
  actions,          \* _addToVectorStore: actions
  response,         \* _addToVectorStore: the answer just received from
                    \* the Generation Port, until the next step
  idx               \* index of the loop the call is in

vars == <<store, hist, db, caller, tasks, backend,
          now, nextId, ops, pc, op, infer, outcome, results, log,
          pre, metadata, filters, msgs, facts, newEmbeddings,
          existingMemories, idMap, actions, response, idx>>

global == <<store, hist, db, caller, tasks, backend, now, nextId, ops>>
pipeline == <<metadata, filters, msgs, facts, newEmbeddings,
              existingMemories, idMap, actions, response, idx>>

---------------------------------------------------------------------------
(* Bounds of the model *)

MaxOps == 2        \* engine calls that pass validation, per behaviour
MaxActions == 2    \* actions in one reconciliation response
MaxEntries == 3    \* direct addHistory calls on the history manager

---------------------------------------------------------------------------
(* JavaScript values *)

Undefined == "undefined"
NonText == "<non-text content>"      \* a Message whose content is an array

EmptyObj == [k \in {} |-> Undefined]

\* obj[key] with a default for a missing key (destructuring defaults, ??)
Opt(obj, key, dflt) == IF key \in DOMAIN obj THEN obj[key] ELSE dflt

\* { ...a, ...b }
Spread(a, b) ==
  [k \in DOMAIN a \cup DOMAIN b |-> IF k \in DOMAIN b THEN b[k] ELSE a[k]]

\* obj.key as a condition: present and not the empty string
Truthy(obj, key) == key \in DOMAIN obj /\ obj[key] # ""

ScopeKeys == {"userId", "agentId", "runId"}

Take(s, n) == IF Len(s) <= n THEN s ELSE SubSeq(s, 1, n)

Range(s) == {s[i] : i \in DOMAIN s}

Perms(S) ==
  {p \in [1..Cardinality(S) -> S] : \A i, j \in 1..Cardinality(S) :
                                       p[i] = p[j] => i = j}

Put(f, k, v) == [x \in DOMAIN f \cup {k} |-> IF x = k THEN v ELSE f[x]]

Del(f, k) == [x \in DOMAIN f \ {k} |-> f[x]]

---------------------------------------------------------------------------
(* Identifiers, embeddings, fingerprints, timestamps *)

\* randomUUID(): the n-th id minted; never equal to a temporary id or "new"
randomUUID(n) == "m" \o ToString(n)

\* String(idx)
String(i) == ToString(i)

\* embedder.embed(text)
embed(text) == <<"vec", text>>

\* createHash("md5").update(data).digest("hex")
md5(data) == <<"md5", data>>

Null == "<null>"
NullTime == -1      \* a timestamp that is null or was not passed

---------------------------------------------------------------------------
(* Semantic Store port *)

\* QdrantVectorStore._createFilter: every key of the filter must match
Matches(payload, flt) ==
  \A k \in DOMAIN flt : k \in DOMAIN payload /\ payload[k] = flt[k]

VSinsert(st, vector, id, payload) ==
  Put(st, id, [vector |-> vector, payload |-> payload])

VSupdate(st, id, vector, payload) ==
  Put(st, id, [vector |-> vector, payload |-> payload])

VSdelete(st, id) == Del(st, id)

\* the possible answers of search / list: the matching records in any
\* order, cut at the limit; each hit is [id, payload]
VSsearch(st, flt, limit) ==
  LET hitIds == {id \in DOMAIN st : Matches(st[id].payload, flt)}
  IN {[i \in 1..Len(Take(p, limit)) |-> [id |-> p[i], payload |-> st[p[i]].payload]] :
        p \in Perms(hitIds)}

\* limit = 100 of list
ListLimit == 100

\* the ids of a set, in the order they were minted
Minted(S) ==
  SelectSeq([i \in 1..nextId |-> randomUUID(i)], LAMBDA id : id \in S)

Rotate(s, k) == SubSeq(s, k + 1, Len(s)) \o SubSeq(s, 1, k)

\* the possible answers of list: when the matching records fit under the
\* limit, all of them in any order; when they do not, limit of them (of the
\* orders the store may scroll in, the rotations of one are modelled: each
\* record is returned by some and left out by another)
VSlist(st, flt, limit) ==
  LET hitIds == {id \in DOMAIN st : Matches(st[id].payload, flt)}
      scroll == Minted(hitIds)
  IN IF Cardinality(hitIds) <= limit THEN VSsearch(st, flt, limit)
     ELSE {[i \in 1..limit |->
              [id |-> Rotate(scroll, k)[i],
               payload |-> st[Rotate(scroll, k)[i]].payload]] :
             k \in 1..Len(scroll)}

---------------------------------------------------------------------------
(* History log: InMemoryHistoryManager *)

HistoryWindow == 100

\* an addHistory that starts the list of the id anew
addHistory_replace(h, memoryId, previousValue, newValue, action, createdAt, updatedAt, isDeleted, t) ==
  Put(h, memoryId, <<[memoryId |-> memoryId,
                      previousValue |-> previousValue,
                      newValue |-> newValue,
                      action |-> action,
                      createdAt |-> IF createdAt = NullTime THEN t ELSE createdAt,
                      updatedAt |-> updatedAt,
                      isDeleted |-> isDeleted]>>)

addHistory(h, memoryId, previousValue, newValue, action, createdAt, updatedAt, isDeleted, t) ==
  LET entries == Opt(h, memoryId, <<>>)
      entry == [memoryId |-> memoryId,
                previousValue |-> previousValue,
                newValue |-> newValue,
                action |-> action,
                createdAt |-> IF createdAt = NullTime THEN t ELSE createdAt,
                updatedAt |-> updatedAt,
                isDeleted |-> isDeleted]
  IN Put(h, memoryId, Append(entries, entry))

\* history.ts lines 30-37: the history manager that records nothing
NoopHistoryManager_addHistory(h) == h
NoopHistoryManager_getHistory(h) == <<>>
NoopHistoryManager_reset(h) == h

\* this.db.addHistory(...): the method of the class of this.db
db_addHistory(cls, h, memoryId, previousValue, newValue, action, createdAt, updatedAt, isDeleted, t) ==
  IF cls = "NoopHistoryManager" THEN NoopHistoryManager_addHistory(h)
  ELSE addHistory(h, memoryId, previousValue, newValue, action, createdAt,
                  updatedAt, isDeleted, t)

\* no sort: the entries as they were recorded
SortDesc_asRecorded(s) == s

\* Array.prototype.sort with (a, b) => b.createdAt - a.createdAt: stable,
\* descending by createdAt; an entry comes after the entries that are newer
\* and after those of the same createdAt that precede it in the array
SortDesc(s) ==
  LET rank == [i \in DOMAIN s |->
                 1 + Cardinality({j \in DOMAIN s :
                                    \/ s[j].createdAt > s[i].createdAt
                                    \/ /\ s[j].createdAt = s[i].createdAt
                                       /\ j < i})]
  IN [p \in DOMAIN s |-> s[CHOOSE i \in DOMAIN s : rank[i] = p]]

\* getHistory sorts the stored array in place and returns its first 100
getHistoryStored(h, memoryId) ==
  IF memoryId \in DOMAIN h THEN Put(h, memoryId, SortDesc(h[memoryId])) ELSE h

getHistory(h, memoryId) ==
  Take(SortDesc(Opt(h, memoryId, <<>>)), HistoryWindow)

\* this.db.getHistory(memoryId): what it returns, and the manager's state
\* after the call
db_getHistory(cls, h, memoryId) ==
  IF cls = "NoopHistoryManager" THEN NoopHistoryManager_getHistory(h)
  ELSE getHistory(h, memoryId)

db_getHistoryStored(cls, h, memoryId) ==
  IF cls = "NoopHistoryManager" THEN h ELSE getHistoryStored(h, memoryId)

\* this.db.reset(); history.ts lines 79-81 clear the map
db_reset(cls, h) ==
  IF cls = "NoopHistoryManager" THEN NoopHistoryManager_reset(h) ELSE EmptyObj

---------------------------------------------------------------------------
(* Generation Port responses, removeCodeBlocks and JSON.parse             *)
(*                                                                         *)
(* A response is [fence, wellFormed, root]: the text is wrapped in a       *)
(* ```json fence, a bare ``` fence or none; without the fence it is JSON   *)
(* or not; root is the value it denotes.  A JSON value is [t, fields] or   *)
(* [t, items].                                                             *)

JsUndefined == [t |-> "undefined", items |-> <<>>]
JsNull == [t |-> "null", items |-> <<>>]
JsNumber == [t |-> "number", items |-> <<>>]
JsString(chars) == [t |-> "string", items |-> chars]
JsArray(items) == [t |-> "array", items |-> items]
JsObject(fields) == [t |-> "object", fields |-> fields]

Response(fence, root) == [fence |-> fence, wellFormed |-> TRUE, root |-> root]
Garbage == [fence |-> "none", wellFormed |-> FALSE, root |-> JsNull]
NoResponse == [fence |-> "", wellFormed |-> FALSE, root |-> JsNull]

\* text.replace(/```json\s*/g, "").replace(/```\s*/g, "").trim()
removeCodeBlocks(text) == [text EXCEPT !.fence = "none"]

\* JSON.parse(text)[key] ?? []  inside try { } catch { [] }
ParseMember(text, key) ==
  IF text.fence # "none" \/ ~text.wellFormed THEN JsArray(<<>>)   \* SyntaxError
  ELSE IF text.root.t = "null" THEN JsArray(<<>>)                 \* TypeError
  ELSE IF text.root.t # "object" THEN JsArray(<<>>)               \* undefined ?? []
  ELSE LET v == Opt(text.root.fields, key, JsUndefined)
       IN IF v.t \in {"undefined", "null"} THEN JsArray(<<>>) ELSE v

\* for (const x of v): only arrays and strings are iterable
Iterable(v) == v.t \in {"array", "string"}

---------------------------------------------------------------------------
(* The engine's private helpers.  m is the machine the helper runs on:     *)
(* [store, hist, db, nextId, log, err, ret]; fault names the port that     *)
(* throws.                                                                 *)

Logged(m, port, arg) ==
  [m EXCEPT !.log = Append(@, [port |-> port, arg |-> arg])]

Throw(m, kind) == [m EXCEPT !.err = kind]

Machine == [store |-> store, hist |-> hist, db |-> db, nextId |-> nextId,
            log |-> log, err |-> "none", ret |-> Undefined]

\* an id derived from the data
newMemoryId_fromData(m, data) == "h-" \o data

\* line 395: the id of a new record is minted, whatever the data
newMemoryId(m, data) == randomUUID(m.nextId + 1)

\* a creation that embeds the data whatever the cache holds
_createMemory_noCache(m, data, existingEmbeddings, md, t, fault) ==
  LET memoryId == newMemoryId(m, data)
      m1 == [m EXCEPT !.nextId = @ + 1]
      m2 == Logged(m1, "embed", data)
      memoryMetadata ==
        Spread(md, [data |-> data, hash |-> md5(data), createdAt |-> t])
      m3 == Logged(m2, "insert", memoryId)
      m4 == [m3 EXCEPT
               !.store = VSinsert(@, embed(data), memoryId, memoryMetadata)]
      m5 == Logged(m4, "addHistory", memoryId)
      m6 == [m5 EXCEPT
               !.hist = db_addHistory(m.db, @, memoryId, Null, data, "ADD",
                                      memoryMetadata.createdAt, NullTime, 0, t),
               !.ret = memoryId]
  IN IF fault = "embed" THEN Throw(m2, "error")
     ELSE IF fault = "insert" THEN Throw(m3, "error")
     ELSE IF fault = "addHistory" THEN Throw(m5, "error")
     ELSE m6

\* a creation that records the history entry before it inserts the record
_createMemory_historyFirst(m, data, existingEmbeddings, md, t, fault) ==
  LET memoryId == newMemoryId(m, data)
      m1 == [m EXCEPT !.nextId = @ + 1]
      cached == data \in existingEmbeddings
      m2 == IF cached THEN m1 ELSE Logged(m1, "embed", data)
      memoryMetadata ==
        Spread(md, [data |-> data, hash |-> md5(data), createdAt |-> t])
      m3 == Logged(m2, "addHistory", memoryId)
      m4 == [m3 EXCEPT
               !.hist = db_addHistory(m.db, @, memoryId, Null, data, "ADD",
                                      memoryMetadata.createdAt, NullTime, 0, t)]
      m5 == Logged(m4, "insert", memoryId)
      m6 == [m5 EXCEPT
               !.store = VSinsert(@, embed(data), memoryId, memoryMetadata),
               !.ret = memoryId]
  IN IF ~cached /\ fault = "embed" THEN Throw(m2, "error")
     ELSE IF fault = "addHistory" THEN Throw(m3, "error")
     ELSE IF fault = "insert" THEN Throw(m5, "error")
     ELSE m6

_createMemory(m, data, existingEmbeddings, md, t, fault) ==
  LET memoryId == newMemoryId(m, data)
      m1 == [m EXCEPT !.nextId = @ + 1]
      cached == data \in existingEmbeddings
      m2 == IF cached THEN m1 ELSE Logged(m1, "embed", data)
      memoryMetadata ==
        Spread(md, [data |-> data, hash |-> md5(data), createdAt |-> t])
      m3 == Logged(m2, "insert", memoryId)
      m4 == [m3 EXCEPT
               !.store = VSinsert(@, embed(data), memoryId, memoryMetadata)]
      m5 == Logged(m4, "addHistory", memoryId)
      m6 == [m5 EXCEPT
               !.hist = db_addHistory(m.db, @, memoryId, Null, data, "ADD",
                                   memoryMetadata.createdAt, NullTime, 0, t),
               !.ret = memoryId]
  IN IF ~cached /\ fault = "embed" THEN Throw(m2, "error")
     ELSE IF fault = "insert" THEN Throw(m3, "error")
     ELSE IF fault = "addHistory" THEN Throw(m5, "error")
     ELSE m6

\* an update that leaves the fingerprint of the old data on the record
_updateMemory_staleHash(m, memoryId, data, existingEmbeddings, md, t, fault) ==
  LET m1 == Logged(m, "get", memoryId)
      found == memoryId \in DOMAIN m.store
      existing == m.store[memoryId]
      prevValue == existing.payload.data
      cached == data \in existingEmbeddings
      m2 == IF cached THEN m1 ELSE Logged(m1, "embed", data)
      kept == {k \in ScopeKeys : Truthy(existing.payload, k)}
      newMetadata ==
        Spread(Spread(md, [data |-> data, hash |-> existing.payload.hash,
                           createdAt |-> existing.payload.createdAt,
                           updatedAt |-> t]),
               [k \in kept |-> existing.payload[k]])
      m3 == Logged(m2, "update", memoryId)
      m4 == [m3 EXCEPT
               !.store = VSupdate(@, memoryId, embed(data), newMetadata)]
      m5 == Logged(m4, "addHistory", memoryId)
      m6 == [m5 EXCEPT
               !.hist = db_addHistory(m.db, @, memoryId, prevValue, data, "UPDATE",
                                   newMetadata.createdAt,
                                   newMetadata.updatedAt, 0, t)]
  IN IF fault = "get" THEN Throw(m1, "error")
     ELSE IF ~found THEN Throw(m1, "notfound")
     ELSE IF ~cached /\ fault = "embed" THEN Throw(m2, "error")
     ELSE IF fault = "update" THEN Throw(m3, "error")
     ELSE IF fault = "addHistory" THEN Throw(m5, "error")
     ELSE m6

_updateMemory(m, memoryId, data, existingEmbeddings, md, t, fault) ==
  LET m1 == Logged(m, "get", memoryId)
      found == memoryId \in DOMAIN m.store
      existing == m.store[memoryId]
      prevValue == existing.payload.data
      cached == data \in existingEmbeddings
      m2 == IF cached THEN m1 ELSE Logged(m1, "embed", data)
      kept == {k \in ScopeKeys : Truthy(existing.payload, k)}
      newMetadata ==
        Spread(Spread(md, [data |-> data, hash |-> md5(data),
                           createdAt |-> existing.payload.createdAt,
                           updatedAt |-> t]),
               [k \in kept |-> existing.payload[k]])
      m3 == Logged(m2, "update", memoryId)
      m4 == [m3 EXCEPT
               !.store = VSupdate(@, memoryId, embed(data), newMetadata)]
      m5 == Logged(m4, "addHistory", memoryId)
      m6 == [m5 EXCEPT
               !.hist = db_addHistory(m.db, @, memoryId, prevValue, data, "UPDATE",
                                   newMetadata.createdAt,
                                   newMetadata.updatedAt, 0, t)]
  IN IF fault = "get" THEN Throw(m1, "error")
     ELSE IF ~found THEN Throw(m1, "notfound")
     ELSE IF ~cached /\ fault = "embed" THEN Throw(m2, "error")
     ELSE IF fault = "update" THEN Throw(m3, "error")
     ELSE IF fault = "addHistory" THEN Throw(m5, "error")
     ELSE m6

\* a deletion logged without the isDeleted flag
_deleteMemory_noFlag(m, memoryId, t, fault) ==
  LET m1 == Logged(m, "get", memoryId)
      found == memoryId \in DOMAIN m.store
      existing == m.store[memoryId]
      m2 == Logged(m1, "delete", memoryId)
      m3 == [m2 EXCEPT !.store = VSdelete(@, memoryId)]
      m4 == Logged(m3, "addHistory", memoryId)
      m5 == [m4 EXCEPT
               !.hist = db_addHistory(m.db, @, memoryId, existing.payload.data, Null,
                                   "DELETE", NullTime, NullTime, 0, t)]
  IN IF fault = "get" THEN Throw(m1, "error")
     ELSE IF ~found THEN Throw(m1, "notfound")
     ELSE IF fault = "delete" THEN Throw(m2, "error")
     ELSE IF fault = "addHistory" THEN Throw(m4, "error")
     ELSE m5

\* a deletion that does not look for the record first
_deleteMemory_unchecked(m, memoryId, t, fault) ==
  LET m1 == Logged(m, "get", memoryId)
      previous == IF memoryId \in DOMAIN m.store
                  THEN m.store[memoryId].payload.data ELSE Undefined
      m2 == Logged(m1, "delete", memoryId)
      m3 == [m2 EXCEPT !.store = VSdelete(@, memoryId)]
      m4 == Logged(m3, "addHistory", memoryId)
      m5 == [m4 EXCEPT
               !.hist = db_addHistory(m.db, @, memoryId, previous, Null,
                                   "DELETE", NullTime, NullTime, 1, t)]
  IN IF fault = "get" THEN Throw(m1, "error")
     ELSE IF fault = "delete" THEN Throw(m2, "error")
     ELSE IF fault = "addHistory" THEN Throw(m4, "error")
     ELSE m5

\* a deletion that passes the two values of its entry in the wrong order
_deleteMemory_swapped(m, memoryId, t, fault) ==
  LET m1 == Logged(m, "get", memoryId)
      found == memoryId \in DOMAIN m.store
      existing == m.store[memoryId]
      m2 == Logged(m1, "delete", memoryId)
      m3 == [m2 EXCEPT !.store = VSdelete(@, memoryId)]
      m4 == Logged(m3, "addHistory", memoryId)
      m5 == [m4 EXCEPT
               !.hist = db_addHistory(m.db, @, memoryId, Null, existing.payload.data,
                                   "DELETE", NullTime, NullTime, 1, t)]
  IN IF fault = "get" THEN Throw(m1, "error")
     ELSE IF ~found THEN Throw(m1, "notfound")
     ELSE IF fault = "delete" THEN Throw(m2, "error")
     ELSE IF fault = "addHistory" THEN Throw(m4, "error")
     ELSE m5

_deleteMemory(m, memoryId, t, fault) ==
  LET m1 == Logged(m, "get", memoryId)
      found == memoryId \in DOMAIN m.store
      existing == m.store[memoryId]
      m2 == Logged(m1, "delete", memoryId)
      m3 == [m2 EXCEPT !.store = VSdelete(@, memoryId)]
      m4 == Logged(m3, "addHistory", memoryId)
      m5 == [m4 EXCEPT
               !.hist = db_addHistory(m.db, @, memoryId, existing.payload.data, Null,
                                   "DELETE", NullTime, NullTime, 1, t)]
  IN IF fault = "get" THEN Throw(m1, "error")
     ELSE IF ~found THEN Throw(m1, "notfound")
     ELSE IF fault = "delete" THEN Throw(m2, "error")
     ELSE IF fault = "addHistory" THEN Throw(m4, "error")
     ELSE m5

\* the result view built by search, get and getAll
excludedKeys ==
  {"userId", "agentId", "runId", "hash", "data", "createdAt", "updatedAt"}

\* a view that reads the text from a field the payload does not have
View_memoryField(id, payload) ==
  [id |-> id, memory |-> Opt(payload, "memory", Undefined)]

\* a view whose metadata map is the whole payload
View_wholePayload(id, payload) ==
  Spread([id |-> id,
          memory |-> payload.data,
          hash |-> payload.hash,
          createdAt |-> payload.createdAt,
          updatedAt |-> Opt(payload, "updatedAt", NullTime),
          metadata |-> payload],
         [k \in {s \in ScopeKeys : Truthy(payload, s)} |-> payload[k]])

View(id, payload) ==
  Spread([id |-> id,
          memory |-> payload.data,
          hash |-> payload.hash,
          createdAt |-> payload.createdAt,
          updatedAt |-> Opt(payload, "updatedAt", NullTime),
          metadata |-> [k \in DOMAIN payload \ excludedKeys |-> payload[k]]],
         [k \in {s \in ScopeKeys : Truthy(payload, s)} |-> payload[k]])

---------------------------------------------------------------------------
(* Inputs *)

Texts == {"a", "b"}

\* option objects passed to add / search / deleteAll / getAll
Configs ==
  { EmptyObj,
    [userId |-> "u1"],
    [agentId |-> "a1"],
    [runId |-> "r1"],
    [userId |-> ""],
    [userId |-> "u1", agentId |-> "a1"],
    [filters |-> [userId |-> "u1"]],
    [userId |-> "u1", metadata |-> [tag |-> "x"]],
    [userId |-> "u1", metadata |-> [agentId |-> "a9"]],
    [agentId |-> "a1", metadata |-> [userId |-> ""]] }

\* option objects passed to search / deleteAll / getAll
QueryConfigs ==
  { EmptyObj, [userId |-> ""], [userId |-> "u1"], [agentId |-> "a1"] }

\* messages: a string, or an array of messages (given by their contents)
MessageInputs ==
  {[str |-> t] : t \in Texts}
    \cup {[arr |-> a] : a \in {<<>>, <<"a", "b">>, <<NonText, "a">>}}

Ports == {"llm", "embed", "search", "get", "insert", "update", "delete",
          "list", "addHistory", "getHistory", "histReset", "deleteCol"}

---------------------------------------------------------------------------
(* Call bookkeeping *)

Idle ==
  /\ pc = "idle"

\* the call-local variables of a call that starts
Start(o) ==
  /\ op' = o
  /\ pre' = [store |-> store, hist |-> hist]

NoPipelineBut(flt) ==
  /\ metadata' = EmptyObj
  /\ filters' = flt
  /\ msgs' = <<>>
  /\ facts' = <<>>
  /\ newEmbeddings' = {}
  /\ existingMemories' = <<>>
  /\ idMap' = EmptyObj
  /\ actions' = <<>>
  /\ response' = NoResponse
  /\ idx' = 0

NoPipeline == NoPipelineBut(EmptyObj)

\* the call ends: it returns ret or throws kind
Finish(kind, ret) ==
  /\ pc' = "done"
  /\ outcome' = kind
  /\ results' = ret

\* the machine m is written back
Commit(m) ==
  /\ store' = m.store
  /\ hist' = m.hist
  /\ nextId' = m.nextId
  /\ log' = m.log

---------------------------------------------------------------------------
(* Memory.add, lines 46-81 *)

\* the filters and metadata objects after lines 50-61
Resolve(config, withMetadata) ==
  LET given == {k \in ScopeKeys : Truthy(config, k)}
      scope == [k \in given |-> config[k]]
  IN [filters |-> Spread(Opt(config, "filters", EmptyObj), scope),
      metadata |-> IF withMetadata
                   THEN Spread(Opt(config, "metadata", EmptyObj), scope)
                   ELSE EmptyObj]

\* a validation that only looks for scope values left empty
ScopeMissing_emptyOnly(flt) ==
  \A k \in ScopeKeys : k \in DOMAIN flt /\ flt[k] = ""

\* lines 63-67 (add) and 237-241 (search)
ScopeMissing(flt) == \A k \in ScopeKeys : ~Truthy(flt, k)

parsedMessages(messages) ==
  IF "arr" \in DOMAIN messages THEN messages.arr ELSE <<messages.str>>

\* lines 50-81, but for what becomes of the objects of config
add_call(config, messages) ==
  LET r == Resolve(config, TRUE)
      parsed == parsedMessages(messages)
      inf == Opt(config, "infer", TRUE)
      rejected == ScopeMissing(r.filters)
  IN /\ Idle
     /\ ops < MaxOps
     /\ Start("add")
     /\ ops' = IF rejected THEN ops ELSE ops + 1
     /\ infer' = inf
     /\ log' = <<>>
     /\ UNCHANGED <<store, hist, db, tasks, backend, now, nextId>>
     /\ IF rejected
        THEN Finish("validation", <<>>) /\ NoPipelineBut(r.filters)
        ELSE /\ metadata' = r.metadata
             /\ filters' = r.filters
             /\ msgs' = parsed
             /\ facts' = <<>>
             /\ newEmbeddings' = {}
             /\ existingMemories' = <<>>
             /\ idMap' = EmptyObj
             /\ actions' = <<>>
             /\ response' = NoResponse
             /\ idx' = 1
             /\ results' = <<>>
             /\ IF ~inf /\ parsed = <<>>
                THEN pc' = "done" /\ outcome' = "ok"
                ELSE pc' = (IF inf THEN "extract" ELSE "raw")
                     /\ outcome' = "pending"

\* add with option objects the caller does not keep
add(config, messages) == add_call(config, messages) /\ UNCHANGED caller

\* lines 50-61: filters and metadata are the caller's objects when config
\* has them, and the scope attributes are assigned into them
add_reusing(scope, messages) ==
  LET config == Spread(scope, [filters |-> caller.filters,
                               metadata |-> caller.metadata])
      r == Resolve(config, TRUE)
  IN /\ add_call(config, messages)
     /\ caller' = [filters |-> r.filters, metadata |-> r.metadata]

---------------------------------------------------------------------------
(* Memory._addToVectorStore, lines 83-225, one step per loop iteration *)

ResultItem(id, memory, event, previousMemory) ==
  [id |-> id, memory |-> memory, event |-> event,
   previousMemory |-> previousMemory]

\* a loop that takes every message
IsTextContent_always(content) == TRUE

\* line 92: typeof message.content === "string"
IsTextContent(content) == content # NonText

\* lines 89-105: infer = false, one message
_addToVectorStore_raw(Faults) ==
  /\ pc = "raw"
  /\ LET message == msgs[idx]
         last == idx = Len(msgs)
     IN IF ~IsTextContent(message)
        THEN /\ idx' = idx + 1
             /\ IF last THEN Finish("ok", results)
                ELSE UNCHANGED <<pc, outcome, results>>
             /\ UNCHANGED <<store, hist, nextId, log>>
        ELSE \E fault \in Faults \cap {"none", "embed", "insert", "addHistory"} :
               LET m == _createMemory(Machine, message, {}, metadata, now, fault)
                   pushed == Append(results,
                                    ResultItem(m.ret, message, "ADD", Undefined))
               IN /\ Commit(m)
                  /\ idx' = idx + 1
                  /\ IF m.err # "none" THEN Finish(m.err, <<>>)
                     ELSE IF last THEN Finish("ok", pushed)
                     ELSE results' = pushed /\ UNCHANGED <<pc, outcome>>
  /\ UNCHANGED <<db, caller, tasks, backend,
                 now, ops, op, infer, pre, metadata, filters, msgs, facts,
                 newEmbeddings, existingMemories, idMap, actions, response>>

\* an extraction that takes a failed request for an answer without facts
_addToVectorStore_extract_swallow(Responses, Faults) ==
  /\ pc = "extract"
  /\ \E answer \in Responses, fault \in Faults \cap {"none", "llm"} :
       LET v == ParseMember(removeCodeBlocks(answer), "facts")
       IN /\ log' = Append(log, [port |-> "llm", arg |-> "facts"])
          /\ response' = (IF fault = "llm" THEN NoResponse ELSE answer)
          /\ IF fault # "llm" /\ ~Iterable(v)
             THEN Finish("error", <<>>) /\ UNCHANGED <<facts, idx>>
             ELSE /\ facts' = (IF fault = "llm" THEN <<>> ELSE v.items)
                  /\ idx' = 1
                  /\ pc' = (IF facts' = <<>> THEN "decide" ELSE "retrieve")
                  /\ UNCHANGED <<outcome, results>>
  /\ UNCHANGED <<store, hist, db, caller, tasks, backend,
                 now, nextId, ops, op, infer, pre, metadata,
                 filters, msgs, newEmbeddings, existingMemories, idMap,
                 actions>>

\* an extraction that returns at once when no fact was extracted
_addToVectorStore_extract_earlyReturn(Responses, Faults) ==
  /\ pc = "extract"
  /\ \E answer \in Responses, fault \in Faults \cap {"none", "llm"} :
       LET v == ParseMember(removeCodeBlocks(answer), "facts")
       IN /\ log' = Append(log, [port |-> "llm", arg |-> "facts"])
          /\ response' = (IF fault = "llm" THEN NoResponse ELSE answer)
          /\ IF fault = "llm" \/ ~Iterable(v)
             THEN Finish("error", <<>>) /\ UNCHANGED <<facts, idx>>
             ELSE /\ facts' = v.items
                  /\ idx' = 1
                  /\ IF v.items = <<>> THEN Finish("ok", <<>>)
                     ELSE pc' = "retrieve" /\ UNCHANGED <<outcome, results>>
  /\ UNCHANGED <<store, hist, db, caller, tasks, backend,
                 now, nextId, ops, op, infer, pre, metadata,
                 filters, msgs, newEmbeddings, existingMemories, idMap,
                 actions>>

\* lines 107-134: the fact-extraction request and its parse
_addToVectorStore_extract(Responses, Faults) ==
  /\ pc = "extract"
  /\ \E answer \in Responses, fault \in Faults \cap {"none", "llm"} :
       LET v == ParseMember(removeCodeBlocks(answer), "facts")
       IN /\ log' = Append(log, [port |-> "llm", arg |-> "facts"])
          /\ response' = (IF fault = "llm" THEN NoResponse ELSE answer)
          /\ IF fault = "llm" \/ ~Iterable(v)
             THEN Finish("error", <<>>) /\ UNCHANGED <<facts, idx>>
             ELSE /\ facts' = v.items
                  /\ idx' = 1
                  /\ pc' = (IF v.items = <<>> THEN "decide" ELSE "retrieve")
                  /\ UNCHANGED <<outcome, results>>
  /\ UNCHANGED <<store, hist, db, caller, tasks, backend,
                 now, nextId, ops, op, infer, pre, metadata,
                 filters, msgs, newEmbeddings, existingMemories, idMap,
                 actions>>

SearchLimit == 5

\* lines 140-148: one fact is embedded and its neighbours are searched
_addToVectorStore_retrieve(Faults) ==
  /\ pc = "retrieve"
  /\ LET fact == facts[idx]
     IN \E fault \in Faults \cap {"none", "embed", "search"},
           similar \in VSsearch(store, filters, SearchLimit) :
          LET l1 == Append(log, [port |-> "embed", arg |-> fact])
              l2 == Append(l1, [port |-> "search", arg |-> fact])
          IN IF fault = "embed"
             THEN /\ log' = l1
                  /\ Finish("error", <<>>)
                  /\ UNCHANGED <<newEmbeddings, existingMemories, idx>>
             ELSE /\ log' = l2
                  /\ newEmbeddings' = newEmbeddings \cup {fact}
                  /\ IF fault = "search"
                     THEN Finish("error", <<>>)
                          /\ UNCHANGED <<existingMemories, idx>>
                     ELSE /\ existingMemories' =
                               existingMemories \o
                                 [i \in DOMAIN similar |->
                                    [id |-> similar[i].id,
                                     text |-> similar[i].payload.data]]
                          /\ idx' = idx + 1
                          /\ pc' = (IF idx = Len(facts) THEN "decide"
                                    ELSE "retrieve")
                          /\ UNCHANGED <<outcome, results>>
  /\ response' = NoResponse
  /\ UNCHANGED <<store, hist, db, caller, tasks, backend,
                 now, nextId, ops, op, infer, pre, metadata,
                 filters, msgs, facts, idMap, actions>>

\* no de-duplication
Dedupe_none(mems) == mems

\* lines 151-153: keep the first occurrence of every id
RECURSIVE Dedupe(_)
Dedupe(mems) ==
  IF mems = <<>> THEN <<>>
  ELSE LET front == Dedupe(SubSeq(mems, 1, Len(mems) - 1))
           mem == mems[Len(mems)]
       IN IF \E i \in 1..(Len(mems) - 1) : mems[i].id = mem.id
          THEN front ELSE Append(front, mem)

\* lines 156-160
TempIdMap(unique) ==
  [k \in {String(i - 1) : i \in DOMAIN unique} |->
     unique[CHOOSE i \in DOMAIN unique : String(i - 1) = k].id]

\* unique after line 159 has overwritten each id by its temporary id
Relabel(unique) ==
  [i \in DOMAIN unique |-> [id |-> String(i - 1), text |-> unique[i].text]]

\* lines 150-174: de-duplication, the temporary ids, the reconciliation
\* request and its parse
_addToVectorStore_decide(Responses, Faults) ==
  /\ pc = "decide"
  /\ LET unique == Dedupe(existingMemories)
     IN /\ idMap' = TempIdMap(unique)
        /\ existingMemories' = Relabel(unique)
        /\ \E answer \in Responses, fault \in Faults \cap {"none", "llm"} :
             LET v == ParseMember(removeCodeBlocks(answer), "memory")
             IN /\ log' = Append(log, [port |-> "llm", arg |-> "memory"])
                /\ response' = (IF fault = "llm" THEN NoResponse ELSE answer)
                /\ IF fault = "llm" \/ ~Iterable(v)
                   THEN Finish("error", <<>>) /\ UNCHANGED <<actions, idx>>
                   ELSE /\ actions' = v.items
                        /\ idx' = 1
                        /\ IF v.items = <<>> THEN Finish("ok", <<>>)
                           ELSE pc' = "apply" /\ UNCHANGED <<outcome, results>>
  /\ UNCHANGED <<store, hist, db, caller, tasks, backend,
                 now, nextId, ops, op, infer, pre, metadata,
                 filters, msgs, facts, newEmbeddings>>

\* a switch in which NONE falls into the ADD case
EventOf_noneAsAdd(action) ==
  IF Opt(action, "event", Undefined) = "NONE" THEN "ADD"
  ELSE Opt(action, "event", Undefined)

\* line 179: switch (action.event)
EventOf(action) == Opt(action, "event", Undefined)

\* a lookup that falls back on the id the model gave
RealIdOf_fallback(map, action) ==
  Opt(map, Opt(action, "id", Undefined), Opt(action, "id", Undefined))

\* lines 194 and 209: idMap[action.id]
RealIdOf(map, action) == Opt(map, Opt(action, "id", Undefined), Undefined)

\* lines 179-218: what one action does to the machine, and the result it
\* pushes (<<>> when it pushes none or throws)
ApplyAction(m, action, cache, map, md, t, fault) ==
  LET event == EventOf(action)
      text == Opt(action, "text", Undefined)
      realId == RealIdOf(map, action)
  IN CASE event = "ADD" ->
            LET m1 == _createMemory(m, text, cache, md, t, fault)
            IN [m |-> m1,
                item |-> IF m1.err = "none"
                         THEN <<ResultItem(m1.ret, text, "ADD", Undefined)>>
                         ELSE <<>>]
       [] event = "UPDATE" ->
            LET m1 == _updateMemory(m, realId, text, cache, md, t, fault)
            IN [m |-> m1,
                item |-> IF m1.err = "none"
                         THEN <<ResultItem(realId, text, "UPDATE",
                                           Opt(action, "old_memory", Undefined))>>
                         ELSE <<>>]
       [] event = "DELETE" ->
            LET m1 == _deleteMemory(m, realId, t, fault)
            IN [m |-> m1,
                item |-> IF m1.err = "none"
                         THEN <<ResultItem(realId, text, "DELETE", Undefined)>>
                         ELSE <<>>]
       [] OTHER -> [m |-> m, item |-> <<>>]

\* the ports an action may find failing
FaultsOf(action) ==
  LET event == EventOf(action)
  IN CASE event = "ADD" -> {"none", "embed", "insert", "addHistory"}
       [] event = "UPDATE" -> {"none", "get", "embed", "update", "addHistory"}
       [] event = "DELETE" -> {"none", "get", "delete", "addHistory"}
       [] OTHER -> {"none"}

\* a loop without the try: the first error ends the call
_addToVectorStore_apply_uncaught(Faults) ==
  /\ pc = "apply"
  /\ LET action == actions[idx]
     IN \E fault \in Faults \cap FaultsOf(action) :
          LET a == ApplyAction(Machine, action, newEmbeddings, idMap,
                               metadata, now, fault)
              pushed == results \o a.item
          IN /\ Commit(a.m)
             /\ idx' = idx + 1
             /\ IF a.m.err # "none" THEN Finish(a.m.err, <<>>)
                ELSE IF idx = Len(actions) THEN Finish("ok", pushed)
                ELSE results' = pushed /\ UNCHANGED <<pc, outcome>>
  /\ response' = NoResponse
  /\ UNCHANGED <<db, caller, tasks, backend,
                 now, ops, op, infer, pre, metadata, filters, msgs, facts,
                 newEmbeddings, existingMemories, idMap, actions>>

\* lines 177-222: one iteration of the loop over the actions; an error is
\* caught and the loop goes on
_addToVectorStore_apply(Faults) ==
  /\ pc = "apply"
  /\ LET action == actions[idx]
     IN \E fault \in Faults \cap FaultsOf(action) :
          LET a == ApplyAction(Machine, action, newEmbeddings, idMap,
                               metadata, now, fault)
              pushed == results \o a.item
          IN /\ Commit(a.m)
             /\ idx' = idx + 1
             /\ IF idx = Len(actions) THEN Finish("ok", pushed)
                ELSE results' = pushed /\ UNCHANGED <<pc, outcome>>
  /\ response' = NoResponse
  /\ UNCHANGED <<db, caller, tasks, backend,
                 now, ops, op, infer, pre, metadata, filters, msgs, facts,
                 newEmbeddings, existingMemories, idMap, actions>>

---------------------------------------------------------------------------
(* The other operations of Memory *)

Views(hits) == [i \in DOMAIN hits |-> View(hits[i].id, hits[i].payload)]

\* the score the store reports for a hit: the similarity of the record's
\* vector to the query vector
Score(vector, query) == IF vector = query THEN 1 ELSE 0

\* lines 260-274: the view of a search hit carries the hit's score
ScoredViews(st, hits, query) ==
  [i \in DOMAIN hits |->
     Put(View(hits[i].id, hits[i].payload), "score",
         Score(st[hits[i].id].vector, query))]

DefaultLimit == 100

\* lines 227-276
search_call(query, config, Faults) ==
  LET r == Resolve(config, FALSE)
      l1 == <<[port |-> "embed", arg |-> query]>>
      l2 == Append(l1, [port |-> "search", arg |-> query])
  IN /\ Idle
     /\ Start("search")
     /\ NoPipelineBut(r.filters)
     /\ infer' = FALSE
     /\ UNCHANGED <<store, hist, db, tasks, backend, now, nextId, ops>>
     /\ IF ScopeMissing(r.filters)
        THEN log' = <<>> /\ Finish("validation", <<>>)
        ELSE \E fault \in Faults \cap {"none", "embed", "search"},
                memories \in VSsearch(store, r.filters,
                                      Opt(config, "limit", DefaultLimit)) :
               IF fault = "embed" THEN log' = l1 /\ Finish("error", <<>>)
               ELSE IF fault = "search" THEN log' = l2 /\ Finish("error", <<>>)
               ELSE log' = l2
                    /\ Finish("ok", ScoredViews(store, memories, embed(query)))

\* search with a filters object the caller does not keep
search(query, config, Faults) ==
  search_call(query, config, Faults) /\ UNCHANGED caller

\* lines 231-235: filters is the caller's object when config has it
search_reusing(query, scope, Faults) ==
  LET config == Spread(scope, [filters |-> caller.filters])
  IN /\ search_call(query, config, Faults)
     /\ caller' = [caller EXCEPT !.filters = Resolve(config, FALSE).filters]

\* lines 279-306: null (<<>>) or the record's view
getResult(st, memoryId) ==
  IF memoryId \in DOMAIN st
  THEN <<View(memoryId, st[memoryId].payload)>>
  ELSE <<>>

\* a get over a store that throws for an id it does not hold
get_absentThrows(memoryId, Faults) ==
  /\ Idle
  /\ Start("get")
  /\ NoPipeline
  /\ infer' = FALSE
  /\ UNCHANGED global
  /\ log' = <<[port |-> "get", arg |-> memoryId]>>
  /\ IF memoryId \in DOMAIN store
     THEN Finish("ok", getResult(store, memoryId))
     ELSE Finish("error", <<>>)

\* lines 278-307
get(memoryId, Faults) ==
  /\ Idle
  /\ Start("get")
  /\ NoPipeline
  /\ infer' = FALSE
  /\ UNCHANGED global
  /\ log' = <<[port |-> "get", arg |-> memoryId]>>
  /\ \E fault \in Faults \cap {"none", "get"} :
       IF fault = "get" THEN Finish("error", <<>>)
       ELSE Finish("ok", getResult(store, memoryId))

\* lines 309-313
update(memoryId, data, Faults) ==
  /\ Idle
  /\ ops < MaxOps
  /\ Start("update")
  /\ NoPipeline
  /\ infer' = FALSE
  /\ ops' = ops + 1
  /\ UNCHANGED <<db, caller, tasks, backend, now>>
  /\ \E fault \in Faults \cap {"none", "embed", "get", "update", "addHistory"} :
       LET m0 == Logged([Machine EXCEPT !.log = <<>>], "embed", data)
           m == IF fault = "embed" THEN Throw(m0, "error")
                ELSE _updateMemory(m0, memoryId, data, {data}, EmptyObj, now,
                                   fault)
       IN Commit(m) /\ Finish(IF m.err = "none" THEN "ok" ELSE m.err, <<>>)

\* lines 315-318
delete(memoryId, Faults) ==
  /\ Idle
  /\ ops < MaxOps
  /\ Start("delete")
  /\ NoPipeline
  /\ infer' = FALSE
  /\ ops' = ops + 1
  /\ UNCHANGED <<db, caller, tasks, backend, now>>
  /\ \E fault \in Faults \cap {"none", "get", "delete", "addHistory"} :
       LET m == _deleteMemory([Machine EXCEPT !.log = <<>>], memoryId, now,
                              fault)
       IN Commit(m) /\ Finish(IF m.err = "none" THEN "ok" ELSE m.err, <<>>)

\* lines 323-327 (deleteAll) and 344-348 (getAll)
ScopeOf(config) == [k \in {s \in ScopeKeys : Truthy(config, s)} |-> config[k]]

\* lines 320-335: validation and the listing
deleteAll(config, Faults) ==
  LET flt == ScopeOf(config)
      rejected == DOMAIN flt = {}
  IN /\ Idle
     /\ ops < MaxOps
     /\ Start("deleteAll")
     /\ infer' = FALSE
     /\ ops' = IF rejected THEN ops ELSE ops + 1
     /\ UNCHANGED <<store, hist, db, caller, tasks, backend, now, nextId>>
     /\ IF rejected
        THEN log' = <<>> /\ NoPipeline /\ Finish("validation", <<>>)
        ELSE /\ log' = <<[port |-> "list", arg |-> ""]>>
             /\ metadata' = EmptyObj
             /\ filters' = flt
             /\ msgs' = <<>>
             /\ facts' = <<>>
             /\ newEmbeddings' = {}
             /\ idMap' = EmptyObj
             /\ actions' = <<>>
             /\ response' = NoResponse
             /\ \E fault \in Faults \cap {"none", "list"},
                   memories \in VSlist(store, flt, ListLimit) :
                  IF fault = "list"
                  THEN /\ existingMemories' = <<>>
                       /\ idx' = 0
                       /\ Finish("error", <<>>)
                  ELSE /\ existingMemories' =
                            [i \in DOMAIN memories |->
                               [id |-> memories[i].id,
                                text |-> memories[i].payload.data]]
                       /\ idx' = 1
                       /\ IF memories = <<>>
                          THEN Finish("ok", <<>>)
                          ELSE /\ pc' = "deleteAll"
                               /\ outcome' = "pending"
                               /\ results' = <<>>

\* lines 336-338: one iteration; an error is not caught
deleteAll_loop(Faults) ==
  /\ pc = "deleteAll"
  /\ \E fault \in Faults \cap {"none", "get", "delete", "addHistory"} :
       LET m == _deleteMemory(Machine, existingMemories[idx].id, now, fault)
       IN /\ Commit(m)
          /\ idx' = idx + 1
          /\ IF m.err # "none" THEN Finish(m.err, <<>>)
             ELSE IF idx = Len(existingMemories) THEN Finish("ok", <<>>)
             ELSE UNCHANGED <<pc, outcome, results>>
  /\ UNCHANGED <<db, caller, tasks, backend,
                 now, ops, op, infer, pre, metadata, filters, msgs, facts,
                 newEmbeddings, existingMemories, idMap, actions, response>>

\* lines 343-377
getAll(config, Faults) ==
  /\ Idle
  /\ Start("getAll")
  /\ NoPipeline
  /\ infer' = FALSE
  /\ UNCHANGED global
  /\ log' = <<[port |-> "list", arg |-> ""]>>
  /\ \E fault \in Faults \cap {"none", "list"},
        memories \in VSlist(store, ScopeOf(config),
                            Opt(config, "limit", DefaultLimit)) :
       IF fault = "list" THEN Finish("error", <<>>)
       ELSE Finish("ok", Views(memories))

\* lines 379-381
history(memoryId, Faults) ==
  /\ Idle
  /\ Start("history")
  /\ NoPipeline
  /\ infer' = FALSE
  /\ UNCHANGED <<store, db, caller, tasks, backend, now, nextId, ops>>
  /\ log' = <<[port |-> "getHistory", arg |-> memoryId]>>
  /\ \E fault \in Faults \cap {"none", "getHistory"} :
       IF fault = "getHistory" THEN Finish("error", <<>>) /\ UNCHANGED hist
       ELSE /\ hist' = db_getHistoryStored(db, hist, memoryId)
            /\ Finish("ok", db_getHistory(db, hist, memoryId))

\* a reset that clears the history only
reset_historyOnly(Faults) ==
  /\ Idle
  /\ ops < MaxOps
  /\ Start("reset")
  /\ NoPipeline
  /\ infer' = FALSE
  /\ ops' = ops + 1
  /\ UNCHANGED <<db, caller, tasks, backend, now, nextId, store>>
  /\ hist' = EmptyObj
  /\ log' = <<[port |-> "histReset", arg |-> ""]>>
  /\ Finish("ok", <<>>)

\* lines 383-386
reset_call(Faults) ==
  /\ Idle
  /\ ops < MaxOps
  /\ Start("reset")
  /\ NoPipeline
  /\ infer' = FALSE
  /\ ops' = ops + 1
  /\ UNCHANGED <<db, caller, tasks, now, nextId>>
  /\ \E fault \in Faults \cap {"none", "histReset", "deleteCol"} :
       LET l1 == <<[port |-> "histReset", arg |-> ""]>>
           l2 == Append(l1, [port |-> "deleteCol", arg |-> ""])
       IN IF fault = "histReset"
          THEN log' = l1 /\ Finish("error", <<>>) /\ UNCHANGED <<store, hist>>
          ELSE /\ hist' = db_reset(db, hist)
               /\ log' = l2
               /\ IF fault = "deleteCol"
                  THEN Finish("error", <<>>) /\ UNCHANGED store
                  ELSE store' = EmptyObj /\ Finish("ok", <<>>)

\* reset on a store whose deleteCol empties the collection
reset(Faults) == reset_call(Faults) /\ UNCHANGED backend

\* reset on the Qdrant store: deleteCol deletes the collection on the
\* server (qdrant index.ts lines 137-139), and only the constructor creates
\* it (lines 52, 164-175)
reset_Qdrant ==
  /\ reset_call({"none"})
  /\ backend' = [backend EXCEPT !.exists = FALSE]

---------------------------------------------------------------------------
(* The caller takes the result; the clock advances between calls *)

Return ==
  /\ pc = "done"
  /\ pc' = "idle"
  /\ op' = "none"
  /\ infer' = FALSE
  /\ outcome' = "none"
  /\ results' = <<>>
  /\ log' = <<>>
  /\ pre' = [store |-> EmptyObj, hist |-> EmptyObj]
  /\ NoPipeline
  /\ UNCHANGED global

Tick ==
  /\ Idle
  /\ now < ops          \* at most one tick per call: only the order of
                        \* timestamps is observed
  /\ now' = now + 1
  /\ UNCHANGED <<store, hist, db, caller, tasks, backend,
                 nextId, ops, pc, op, infer, outcome,
                 results, log, pre>>
  /\ UNCHANGED pipeline

\* a constructor that falls back on the in-memory history manager
Memory_constructor_inMemory(deps) ==
  Opt(deps, "historyManager", "InMemoryHistoryManager")

\* the engine runs alone: the caller passes fresh option objects, no call
\* runs beside the one in flight and the store's collection is there
Alone ==
  /\ caller = [filters |-> EmptyObj, metadata |-> EmptyObj]
  /\ tasks = EmptyObj
  /\ backend = [exists |-> TRUE, initialized |-> TRUE, creates |-> 0]

\* line 42: deps.historyManager ?? new NoopHistoryManager()
Memory_constructor(deps) == Opt(deps, "historyManager", "NoopHistoryManager")

\* the state after new Memory(deps)
Constructed(deps) ==
  /\ db = Memory_constructor(deps)
  /\ Alone
  /\ store = EmptyObj
  /\ hist = EmptyObj
  /\ now = 0
  /\ nextId = 0
  /\ ops = 0
  /\ pc = "idle"
  /\ op = "none"
  /\ infer = FALSE
  /\ outcome = "none"
  /\ results = <<>>
  /\ log = <<>>
  /\ pre = [store |-> EmptyObj, hist |-> EmptyObj]
  /\ metadata = EmptyObj
  /\ filters = EmptyObj
  /\ msgs = <<>>
  /\ facts = <<>>
  /\ newEmbeddings = {}
  /\ existingMemories = <<>>
  /\ idMap = EmptyObj
  /\ actions = <<>>
  /\ response = NoResponse
  /\ idx = 0

\* a Memory given an InMemoryHistoryManager
Init == Constructed([historyManager |-> "InMemoryHistoryManager"])

---------------------------------------------------------------------------
(* What the collaborators may answer *)

FactsObject(v) == JsObject([facts |-> v])
MemoryObject(v) == JsObject([memory |-> v])

FactResponses ==
  { Garbage,
    Response("none", JsNull),
    Response("none", JsObject(EmptyObj)),
    Response("none", FactsObject(JsNumber)),
    Response("none", FactsObject(JsString(<<"a", "b">>))),
    Response("none", FactsObject(JsArray(<<>>))),
    Response("none", FactsObject(JsArray(<<"a">>))),
    Response("json", FactsObject(JsArray(<<"a", "b">>))) }

BasicFactResponses == {Response("none", FactsObject(JsArray(<<"a">>)))}

\* ids the model may write into an action: "new", temporary ids (one of
\* them possibly no key of the map) and a real id it has made up or seen
ActionAlphabet ==
  { [id |-> "0", event |-> "ADD", text |-> "a"],
    [id |-> "0", event |-> "UPDATE", text |-> "b", old_memory |-> "a"],
    [id |-> "1", event |-> "UPDATE", text |-> "a", old_memory |-> "a"],
    [id |-> "0", event |-> "DELETE", text |-> "a"],
    [id |-> randomUUID(1), event |-> "DELETE", text |-> "a"],
    [id |-> "0", event |-> "NONE", text |-> "a"] }

BasicAlphabet ==
  { [id |-> "new", event |-> "ADD", text |-> "a"],
    [id |-> "0", event |-> "UPDATE", text |-> "b", old_memory |-> "a"],
    [id |-> "0", event |-> "DELETE", text |-> "a"] }

ActionLists(Alphabet) ==
  UNION {[1..n -> Alphabet] : n \in 0..MaxActions}

ActionResponses ==
  { Garbage,
    Response("none", JsObject(EmptyObj)),
    Response("none", MemoryObject(JsNumber)),
    Response("bare", MemoryObject(JsArray(
       <<[id |-> "new", event |-> "ADD", text |-> "a"]>>))) }
    \cup {Response("none", MemoryObject(JsArray(l))) :
            l \in ActionLists(ActionAlphabet)}

BasicActionResponses ==
  {Response("none", MemoryObject(JsArray(l))) :
     l \in {<<>>} \cup {<<a>> : a \in BasicAlphabet}}

FaultActionResponses ==
  {Response("none", MemoryObject(JsArray(l))) : l \in ActionLists(BasicAlphabet)}

IdInputs == {randomUUID(i) : i \in 1..nextId} \cup {"no-id"}

NoFaults == {"none"}
AllFaults == {"none"} \cup Ports

---------------------------------------------------------------------------
(* Spec: sequences of engine calls, every operation, no collaborator       *)
(* failure                                                                 *)

SeedConfigs == {[userId |-> "u1"], [agentId |-> "a1"]}
Seeds ==
  { [config |-> [userId |-> "u1"], messages |-> [str |-> "a"]],
    [config |-> [userId |-> "u1"], messages |-> [arr |-> <<"b", "a">>]],
    [config |-> [agentId |-> "a1"], messages |-> [str |-> "a"]] }

Next ==
  \/ \E c \in Configs : add(Spread(c, [infer |-> FALSE]), [str |-> "a"])
  \/ \E ms \in MessageInputs : add([userId |-> "u1", infer |-> FALSE], ms)
  \/ \E c \in SeedConfigs : add(c, [str |-> "a"])
  \/ _addToVectorStore_raw(NoFaults)
  \/ _addToVectorStore_extract(BasicFactResponses, NoFaults)
  \/ _addToVectorStore_retrieve(NoFaults)
  \/ _addToVectorStore_decide(BasicActionResponses, NoFaults)
  \/ _addToVectorStore_apply(NoFaults)
  \/ \E c \in QueryConfigs : search("a", c, NoFaults)
  \/ \E id \in IdInputs : get(id, NoFaults)
  \/ \E id \in IdInputs, t \in Texts : update(id, t, NoFaults)
  \/ \E id \in IdInputs : delete(id, NoFaults)
  \/ \E c \in QueryConfigs : deleteAll(c, NoFaults)
  \/ deleteAll_loop(NoFaults)
  \/ \E c \in QueryConfigs : getAll(c, NoFaults)
  \/ \E id \in IdInputs : history(id, NoFaults)
  \/ reset(NoFaults)
  \/ Return
  \/ Tick

Spec == Init /\ [][Next]_vars

---------------------------------------------------------------------------
(* SpecAdd: the store is seeded by add(infer = false) calls, then one      *)
(* inferred add runs against every answer of the Generation Port           *)

InferConfigs ==
  { EmptyObj,
    [userId |-> "u1"],
    [userId |-> "u1", metadata |-> [agentId |-> "a9"]] }

Seed ==
  \/ \E sd \in Seeds :
       add(Spread(sd.config, [infer |-> FALSE]), sd.messages)
  \/ _addToVectorStore_raw(NoFaults)
  \/ (~infer /\ Return)
  \/ Tick

NextAdd ==
  \/ Seed
  \/ \E c \in InferConfigs : add(c, [str |-> "a"])
  \/ _addToVectorStore_extract(FactResponses, NoFaults)
  \/ _addToVectorStore_retrieve(NoFaults)
  \/ _addToVectorStore_decide(ActionResponses, NoFaults)
  \/ _addToVectorStore_apply(NoFaults)

SpecAdd == Init /\ [][NextAdd]_vars

---------------------------------------------------------------------------
(* SpecFault: as SpecAdd, with any one port failing in any step of the     *)
(* inferred add                                                            *)

NextFault ==
  \/ Seed
  \/ \E c \in SeedConfigs : add(c, [str |-> "a"])
  \/ _addToVectorStore_extract(BasicFactResponses, AllFaults)
  \/ _addToVectorStore_retrieve(AllFaults)
  \/ _addToVectorStore_decide(FaultActionResponses, AllFaults)
  \/ _addToVectorStore_apply(AllFaults)

SpecFault == Init /\ [][NextFault]_vars

---------------------------------------------------------------------------
(* SpecHistory: the InMemoryHistoryManager called directly, with any       *)
(* memoryId and any createdAt                                              *)

HistoryIds == {"m1", "m2"}
CreatedAtInputs == {NullTime, 1}

\* the engine's variables, which the history manager does not touch
Engine == <<store, db, caller, tasks, backend,
            nextId, pc, infer, outcome, metadata, filters, msgs, facts,
            newEmbeddings, existingMemories, idMap, actions, response, idx>>

\* history.ts lines 45-68
HistoryManager_addHistory(memoryId, action, createdAt) ==
  /\ Idle
  /\ ops < MaxEntries
  /\ ops' = ops + 1
  /\ hist' = db_addHistory(db, hist, memoryId, Null, "a", action, createdAt,
                           NullTime, 0, now)
  /\ op' = "addHistory"
  /\ log' = <<[port |-> "addHistory", arg |-> memoryId]>>
  /\ pre' = [store |-> EmptyObj, hist |-> EmptyObj]
  /\ results' = <<>>
  /\ UNCHANGED now
  /\ UNCHANGED Engine

\* history.ts lines 70-77
HistoryManager_getHistory(memoryId) ==
  /\ Idle
  /\ hist' = db_getHistoryStored(db, hist, memoryId)
  /\ results' = db_getHistory(db, hist, memoryId)
  /\ op' = "getHistory"
  /\ log' = <<[port |-> "getHistory", arg |-> memoryId]>>
  /\ pre' = [store |-> store, hist |-> hist]
  /\ UNCHANGED <<now, ops>>
  /\ UNCHANGED Engine

\* history.ts lines 79-81
HistoryManager_reset ==
  /\ Idle
  /\ hist' = db_reset(db, hist)
  /\ op' = "histReset"
  /\ log' = <<[port |-> "histReset", arg |-> ""]>>
  /\ pre' = [store |-> EmptyObj, hist |-> EmptyObj]
  /\ results' = <<>>
  /\ UNCHANGED <<now, ops>>
  /\ UNCHANGED Engine

NextHistory ==
  \/ \E id \in HistoryIds, a \in {"ADD", "UPDATE"}, c \in CreatedAtInputs :
       HistoryManager_addHistory(id, a, c)
  \/ \E id \in HistoryIds : HistoryManager_getHistory(id)
  \/ HistoryManager_reset
  \/ Tick

SpecHistory == Init /\ [][NextHistory]_vars

---------------------------------------------------------------------------
(* SpecBulk: a store that holds one record more than list returns at      *)
(* once, all of one user, written by as many add(infer = false) calls     *)

BulkSize == ListLimit + 1

BulkIds == {randomUUID(i) : i \in 1..BulkSize}

\* what add("a", {userId: "u1", infer: false}) writes at time 0
FirstAdd ==
  _createMemory([store |-> EmptyObj, hist |-> EmptyObj,
                 db |-> "InMemoryHistoryManager", nextId |-> 0,
                 log |-> <<>>, err |-> "none", ret |-> Undefined],
                "a", {}, [userId |-> "u1"], 0, "none")

InitBulk ==
  /\ db = "InMemoryHistoryManager"
  /\ Alone
  /\ store = [id \in BulkIds |-> FirstAdd.store[randomUUID(1)]]
  /\ hist = [id \in BulkIds |->
               <<[FirstAdd.hist[randomUUID(1)][1] EXCEPT !.memoryId = id]>>]
  /\ nextId = BulkSize
  /\ now = 0
  /\ ops = 0
  /\ pc = "idle"
  /\ op = "none"
  /\ infer = FALSE
  /\ outcome = "none"
  /\ results = <<>>
  /\ log = <<>>
  /\ pre = [store |-> EmptyObj, hist |-> EmptyObj]
  /\ metadata = EmptyObj
  /\ filters = EmptyObj
  /\ msgs = <<>>
  /\ facts = <<>>
  /\ newEmbeddings = {}
  /\ existingMemories = <<>>
  /\ idMap = EmptyObj
  /\ actions = <<>>
  /\ response = NoResponse
  /\ idx = 0

NextBulk ==
  \/ deleteAll([userId |-> "u1"], NoFaults)
  \/ deleteAll_loop(NoFaults)
  \/ Return

SpecBulk == InitBulk /\ [][NextBulk]_vars

---------------------------------------------------------------------------
(* SpecChain: add, update, delete and deleteAll one at a time; any port    *)
(* but the history log may fail                                            *)

ChainFaults == AllFaults \ {"addHistory"}

ChainActionResponses ==
  {Response("none", MemoryObject(JsArray(l))) :
     l \in { <<[id |-> "new", event |-> "ADD", text |-> "a"],
               [id |-> "new", event |-> "ADD", text |-> "b"]>>,
             <<[id |-> "0", event |-> "UPDATE", text |-> "b", old_memory |-> "a"],
               [id |-> "0", event |-> "DELETE", text |-> "b"]>> }}

NextChain ==
  \/ \E c \in SeedConfigs : add(Spread(c, [infer |-> FALSE]), [str |-> "a"])
  \/ add([userId |-> "u1"], [str |-> "a"])
  \/ _addToVectorStore_raw(ChainFaults)
  \/ _addToVectorStore_extract(BasicFactResponses, ChainFaults)
  \/ _addToVectorStore_retrieve(ChainFaults)
  \/ _addToVectorStore_decide(ChainActionResponses, ChainFaults)
  \/ _addToVectorStore_apply(ChainFaults)
  \/ \E id \in IdInputs, t \in Texts : update(id, t, ChainFaults)
  \/ \E id \in IdInputs : delete(id, ChainFaults)
  \/ deleteAll([userId |-> "u1"], ChainFaults)
  \/ deleteAll_loop(ChainFaults)
  \/ Return
  \/ Tick

SpecChain == Init /\ [][NextChain]_vars

---------------------------------------------------------------------------
(* SpecCaller: a caller that keeps one filters object and one metadata     *)
(* object, empty at first, and passes them to every call                   *)

NextCaller ==
  \/ \E sc \in QueryConfigs \cup {[runId |-> "r1"]} :
       add_reusing(Spread(sc, [infer |-> FALSE]), [str |-> "a"])
  \/ _addToVectorStore_raw(NoFaults)
  \/ \E sc \in QueryConfigs : search_reusing("a", sc, NoFaults)
  \/ Return

SpecCaller == Init /\ [][NextCaller]_vars

---------------------------------------------------------------------------
(* SpecQdrant: the engine on a Qdrant store whose collection the           *)
(* constructor has created; the server refuses the requests that name a    *)
(* collection it does not have                                             *)

QdrantFaults == IF backend.exists THEN {"none"} ELSE {"insert", "get"}

NextQdrant ==
  \/ \E t \in Texts : add([userId |-> "u1", infer |-> FALSE], [str |-> t])
  \/ _addToVectorStore_raw(QdrantFaults)
  \/ \E id \in IdInputs : get(id, QdrantFaults)
  \/ reset_Qdrant
  \/ Return
  \/ Tick

SpecQdrant == Init /\ [][NextQdrant]_vars

---------------------------------------------------------------------------
(* SpecNoop: a Memory constructed without a history manager; its engine    *)
(* calls, and the calls of the history interface on the manager it holds   *)

InitNoop == Constructed(EmptyObj)

NextNoop ==
  \/ \E c \in SeedConfigs : add(Spread(c, [infer |-> FALSE]), [str |-> "a"])
  \/ add([userId |-> "u1"], [str |-> "a"])
  \/ _addToVectorStore_raw(NoFaults)
  \/ _addToVectorStore_extract(BasicFactResponses, NoFaults)
  \/ _addToVectorStore_retrieve(NoFaults)
  \/ _addToVectorStore_decide(BasicActionResponses, NoFaults)
  \/ _addToVectorStore_apply(NoFaults)
  \/ \E id \in IdInputs, t \in Texts : update(id, t, NoFaults)
  \/ \E id \in IdInputs : delete(id, NoFaults)
  \/ \E id \in IdInputs : history(id, NoFaults)
  \/ reset(NoFaults)
  \/ \E id \in HistoryIds, c \in CreatedAtInputs :
       HistoryManager_addHistory(id, "ADD", c)
  \/ \E id \in HistoryIds : HistoryManager_getHistory(id)
  \/ HistoryManager_reset
  \/ Return

SpecNoop == InitNoop /\ [][NextNoop]_vars

---------------------------------------------------------------------------
(* SpecCandidates: one inferred add over a store of one user that holds    *)
(* two records, or one record more than a neighbour search returns         *)

\* what the i-th add(text, {userId: "u1", infer: false}) writes at time 0
AddedAt(i, text) ==
  _createMemory([store |-> EmptyObj, hist |-> EmptyObj,
                 db |-> "InMemoryHistoryManager", nextId |-> i - 1,
                 log |-> <<>>, err |-> "none", ret |-> Undefined],
                text, {}, [userId |-> "u1"], 0, "none")

TextAt(i) == IF i % 2 = 1 THEN "a" ELSE "b"

StoreSizes == {2, SearchLimit + 1}

InitCandidates ==
  /\ db = "InMemoryHistoryManager"
  /\ Alone
  /\ \E n \in StoreSizes :
       /\ store = [id \in {randomUUID(i) : i \in 1..n} |->
                     LET i == CHOOSE k \in 1..n : randomUUID(k) = id
                     IN AddedAt(i, TextAt(i)).store[id]]
       /\ hist = [id \in {randomUUID(i) : i \in 1..n} |->
                    LET i == CHOOSE k \in 1..n : randomUUID(k) = id
                    IN AddedAt(i, TextAt(i)).hist[id]]
       /\ nextId = n
  /\ now = 0
  /\ ops = 0
  /\ pc = "idle"
  /\ op = "none"
  /\ infer = FALSE
  /\ outcome = "none"
  /\ results = <<>>
  /\ log = <<>>
  /\ pre = [store |-> EmptyObj, hist |-> EmptyObj]
  /\ metadata = EmptyObj
  /\ filters = EmptyObj
  /\ msgs = <<>>
  /\ facts = <<>>
  /\ newEmbeddings = {}
  /\ existingMemories = <<>>
  /\ idMap = EmptyObj
  /\ actions = <<>>
  /\ response = NoResponse
  /\ idx = 0

TwoFactResponses == {Response("none", FactsObject(JsArray(<<"a", "b">>)))}

NextCandidates ==
  \/ add([userId |-> "u1"], [str |-> "a"])
  \/ _addToVectorStore_extract(BasicFactResponses, NoFaults)
  \/ (Cardinality(DOMAIN store) <= 2
        /\ _addToVectorStore_extract(TwoFactResponses, NoFaults))
  \/ _addToVectorStore_retrieve(NoFaults)
  \/ _addToVectorStore_decide(BasicActionResponses, NoFaults)
  \/ _addToVectorStore_apply(NoFaults)

SpecCandidates == InitCandidates /\ [][NextCandidates]_vars

---------------------------------------------------------------------------
(* SpecRace: calls that run concurrently on a store that holds records.    *)
(* A task is one call from the point where it holds the id of the record:  *)
(* update and delete get it as argument, deleteAll from its list (line     *)
(* 335), an inferred add from its candidates (lines 144, 194, 209). It     *)
(* then runs _updateMemory or _deleteMemory, one step per await.           *)

sequential == <<db, caller, now, nextId, ops, pc, op, infer, outcome,
                results, log, pre, pipeline>>

\* the call reaches its helper: update (lines 309-311), delete (316),
\* deleteAll (335-337), or an UPDATE or DELETE action of add (193-210)
Task_start(t, call, id) ==
  /\ t \notin DOMAIN tasks
  /\ call \in {"deleteAll", "addUPDATE", "addDELETE"} => id \in DOMAIN store
  /\ tasks' = Put(tasks, t, [call |-> call, id |-> id, pc |-> "get",
                            existing |-> <<>>, outcome |-> "pending"])
  /\ UNCHANGED <<store, hist, backend, sequential>>

\* lines 424-427 and 456-459: the record is fetched; none is an error
Task_get(t) ==
  /\ t \in DOMAIN tasks
  /\ tasks[t].pc = "get"
  /\ LET id == tasks[t].id
     IN tasks' = IF id \in DOMAIN store
                 THEN Put(tasks, t, [tasks[t] EXCEPT !.pc = "write",
                                                     !.existing = <<store[id]>>])
                 ELSE Put(tasks, t, [tasks[t] EXCEPT !.pc = "done",
                                                     !.outcome = "notfound"])
  /\ UNCHANGED <<store, hist, backend, sequential>>

\* what the helper of the task writes, given the record the task fetched
Task_helper(t) ==
  LET k == tasks[t]
      m == [Machine EXCEPT !.store = Put(store, k.id, k.existing[1])]
  IN IF k.call \in {"update", "addUPDATE"}
     THEN _updateMemory(m, k.id, "b", {"b"}, EmptyObj, now, "none")
     ELSE _deleteMemory(m, k.id, now, "none")

\* lines 444 and 461: the store write; the update of the Qdrant store is an
\* upsert (qdrant index.ts lines 123-131)
Task_write(t) ==
  /\ t \in DOMAIN tasks
  /\ tasks[t].pc = "write"
  /\ store' = IF tasks[t].call \in {"update", "addUPDATE"}
              THEN Put(store, tasks[t].id, Task_helper(t).store[tasks[t].id])
              ELSE VSdelete(store, tasks[t].id)
  /\ tasks' = Put(tasks, t, [tasks[t] EXCEPT !.pc = "addHistory"])
  /\ UNCHANGED <<hist, backend, sequential>>

\* lines 445-452 and 462-470: the history entry, then the call returns
Task_addHistory(t) ==
  /\ t \in DOMAIN tasks
  /\ tasks[t].pc = "addHistory"
  /\ hist' = Task_helper(t).hist
  /\ tasks' = Put(tasks, t, [tasks[t] EXCEPT !.pc = "done", !.outcome = "ok"])
  /\ UNCHANGED <<store, backend, sequential>>

NextRace ==
  \/ \E t \in 1..MaxOps, id \in {randomUUID(1), "no-id"},
        call \in {"update", "delete", "deleteAll", "addUPDATE", "addDELETE"} :
       Task_start(t, call, id)
  \/ \E t \in 1..MaxOps : Task_get(t)
  \/ \E t \in 1..MaxOps : Task_write(t)
  \/ \E t \in 1..MaxOps : Task_addHistory(t)

SpecRace == InitCandidates /\ [][NextRace]_vars

---------------------------------------------------------------------------
(* SpecLazy: an Azure AI Search store from its construction. Task 0 is   *)
(* the _initialize the constructor starts and does not await (line 66);    *)
(* the other tasks are inserts, which await _initialize first (line 98).   *)
(* backend.creates counts the createIndex requests since the last          *)
(* deleteCol; the server refuses to create an index it already has.        *)

\* azure-ai-search index.ts lines 47-67, 263: the flag is false, and
\* _initialize runs up to its first await
AzureAISearchVectorStore_constructor ==
  /\ tasks = EmptyObj
  /\ \E e \in BOOLEAN :
       backend' = [exists |-> e, initialized |-> FALSE, creates |-> 0]
  /\ tasks' = Put(tasks, 0, [call |-> "constructor", pc |-> "getIndex",
                            outcome |-> "pending"])
  /\ UNCHANGED <<store, hist, sequential>>

\* lines 93-98, 263: insert is called, and _initialize returns at once when
\* the flag is set
AzureAISearchVectorStore_insert(t) ==
  /\ 0 \in DOMAIN tasks
  /\ t \notin DOMAIN tasks
  /\ tasks' = Put(tasks, t, [call |-> "insert",
                            pc |-> IF backend.initialized THEN "upload"
                                   ELSE "getIndex",
                            outcome |-> "pending"])
  /\ UNCHANGED <<store, hist, backend, sequential>>

\* lines 356-362: getIndex answers; when it throws, createIndex is requested
_initialize_getIndex(t) ==
  /\ t \in DOMAIN tasks
  /\ tasks[t].pc = "getIndex"
  /\ IF backend.exists
     THEN /\ backend' = [backend EXCEPT !.initialized = TRUE]
          /\ tasks' = Put(tasks, t, [tasks[t] EXCEPT !.pc = "upload"])
     ELSE /\ backend' = [backend EXCEPT !.creates = @ + 1]
          /\ tasks' = Put(tasks, t, [tasks[t] EXCEPT !.pc = "createIndex"])
  /\ UNCHANGED <<store, hist, sequential>>

\* lines 359-362: createIndex answers; when it throws, so does _initialize
_initialize_createIndex(t) ==
  /\ t \in DOMAIN tasks
  /\ tasks[t].pc = "createIndex"
  /\ IF backend.exists
     THEN /\ tasks' = Put(tasks, t, [tasks[t] EXCEPT !.pc = "done",
                                                     !.outcome = "conflict"])
          /\ UNCHANGED backend
     ELSE /\ backend' = [backend EXCEPT !.exists = TRUE, !.initialized = TRUE]
          /\ tasks' = Put(tasks, t, [tasks[t] EXCEPT !.pc = "upload"])
  /\ UNCHANGED <<store, hist, sequential>>

\* lines 66, 100-116: the constructor drops the promise; insert uploads
AzureAISearchVectorStore_upload(t) ==
  /\ t \in DOMAIN tasks
  /\ tasks[t].pc = "upload"
  /\ tasks' = Put(tasks, t, [tasks[t] EXCEPT
                              !.pc = "done",
                              !.outcome = IF backend.exists THEN "ok"
                                          ELSE "error"])
  /\ UNCHANGED <<store, hist, backend, sequential>>

\* lines 215-222
AzureAISearchVectorStore_deleteCol ==
  /\ 0 \in DOMAIN tasks
  /\ backend' = [exists |-> FALSE, initialized |-> FALSE, creates |-> 0]
  /\ UNCHANGED <<store, hist, tasks, sequential>>

NextLazy ==
  \/ AzureAISearchVectorStore_constructor
  \/ \E t \in 1..MaxOps : AzureAISearchVectorStore_insert(t)
  \/ \E t \in 0..MaxOps : _initialize_getIndex(t)
  \/ \E t \in 0..MaxOps : _initialize_createIndex(t)
  \/ \E t \in 0..MaxOps : AzureAISearchVectorStore_upload(t)
  \/ AzureAISearchVectorStore_deleteCol

SpecLazy == Init /\ [][NextLazy]_vars

---------------------------------------------------------------------------
(* SpecWindow: a record that was added at time 0 and updated once at each  *)
(* of the times 1..HistoryWindow - 1, so that its history holds as many    *)
(* entries as getHistory returns; then update, history and get             *)

\* the entry the engine recorded at time t - 1: the ADD, then the UPDATEs
Recorded(t) ==
  IF t = 1
  THEN AddedAt(1, TextAt(1)).hist[randomUUID(1)][1]
  ELSE [memoryId |-> randomUUID(1),
        previousValue |-> TextAt(t - 1),
        newValue |-> TextAt(t),
        action |-> "UPDATE",
        createdAt |-> 0,
        updatedAt |-> t - 1,
        isDeleted |-> 0]

InitWindow ==
  /\ db = "InMemoryHistoryManager"
  /\ Alone
  /\ store = [id \in {randomUUID(1)} |->
                [vector |-> embed(TextAt(HistoryWindow)),
                 payload |-> Spread(AddedAt(1, TextAt(1)).store[id].payload,
                                    [data |-> TextAt(HistoryWindow),
                                     hash |-> md5(TextAt(HistoryWindow)),
                                     updatedAt |-> HistoryWindow - 1])]]
  /\ hist = [id \in {randomUUID(1)} |-> [t \in 1..HistoryWindow |-> Recorded(t)]]
  /\ nextId = 1
  /\ now = HistoryWindow
  /\ ops = 0
  /\ pc = "idle"
  /\ op = "none"
  /\ infer = FALSE
  /\ outcome = "none"
  /\ results = <<>>
  /\ log = <<>>
  /\ pre = [store |-> EmptyObj, hist |-> EmptyObj]
  /\ metadata = EmptyObj
  /\ filters = EmptyObj
  /\ msgs = <<>>
  /\ facts = <<>>
  /\ newEmbeddings = {}
  /\ existingMemories = <<>>
  /\ idMap = EmptyObj
  /\ actions = <<>>
  /\ response = NoResponse
  /\ idx = 0

\* the clock advances between two calls
TickWindow ==
  /\ Idle
  /\ now < HistoryWindow + ops
  /\ now' = now + 1
  /\ UNCHANGED <<store, hist, db, caller, tasks, backend,
                 nextId, ops, pc, op, infer, outcome,
                 results, log, pre>>
  /\ UNCHANGED pipeline

NextWindow ==
  \/ \E id \in IdInputs, t \in Texts : update(id, t, NoFaults)
  \/ \E id \in IdInputs : history(id, NoFaults)
  \/ \E id \in IdInputs : get(id, NoFaults)
  \/ Return
  \/ TickWindow

SpecWindow == InitWindow /\ [][NextWindow]_vars

---------------------------------------------------------------------------
(* Properties *)

\* the number of entries of a history log
HistSize(h) == Cardinality(UNION {{id} \X (1..Len(h[id])) : id \in DOMAIN h})

\* the ports called so far by the call in flight
Called(port) == \E i \in DOMAIN log : log[i].port = port
Calls(port) == Cardinality({i \in DOMAIN log : log[i].port = port})

\* the call in flight was given a scope filter with none of the scope keys
NoScopeKey == DOMAIN filters \cap {"userId", "agentId", "runId"} = {}

\* C1: an add, search or deleteAll call whose resolved scope filter has none
\* of userId, agentId, runId ends with a validation error, has called no
\* port at all, and leaves the store and the history as they were before it
C1_ScopelessRejected ==
  (pc = "done" /\ op \in {"add", "search", "deleteAll"} /\ NoScopeKey)
    => /\ outcome = "validation"
       /\ log = <<>>
       /\ store = pre.store
       /\ hist = pre.hist

C1_Witness ==
  /\ pc = "done"
  /\ op = "add"
  /\ NoScopeKey
  /\ outcome = "validation"
  /\ DOMAIN pre.store # {}

\* the text contents of a list of message contents, in order
TextsOf(ms) == SelectSeq(ms, LAMBDA c : c \in Texts)

\* C2: an add with infer = false and a valid scope never calls the
\* Generation Port; when it has returned, its results are one ADD entry per
\* text message, in message order, with the message's text, and as many
\* records and history entries were written as there are text messages
C2_RawAdd ==
  (op = "add" /\ ~infer /\ outcome # "validation")
    => /\ ~Called("llm")
       /\ pc = "done" =>
            LET texts == TextsOf(msgs)
            IN /\ outcome = "ok"
               /\ Len(results) = Len(texts)
               /\ \A i \in DOMAIN results :
                    /\ results[i].event = "ADD"
                    /\ results[i].memory = texts[i]
               /\ Calls("insert") = Len(texts)
               /\ Calls("addHistory") = Len(texts)
               /\ Cardinality(DOMAIN store \ DOMAIN pre.store) = Len(texts)
               /\ HistSize(hist) = HistSize(pre.hist) + Len(texts)

C2_Witness ==
  /\ pc = "done"
  /\ op = "add"
  /\ ~infer
  /\ msgs = <<NonText, "a">>
  /\ Len(results) = 1
  /\ DOMAIN pre.store # {}

\* C3: when add with infer = false has returned, get on each returned id
\* gives a record whose memory is the text of the message the id was
\* returned for
C3_RoundTrip ==
  (pc = "done" /\ op = "add" /\ ~infer /\ outcome = "ok")
    => \A i \in DOMAIN results :
         LET got == getResult(store, results[i].id)
         IN /\ Len(got) = 1
            /\ got[1].id = results[i].id
            /\ got[1].memory = TextsOf(msgs)[i]

C3_Witness ==
  /\ pc = "done"
  /\ op = "add"
  /\ ~infer
  /\ msgs = <<"a", "b">>
  /\ Len(results) = 2
  /\ getResult(store, results[2].id)[1].memory = "b"

\* an inferred add is applying the action under idx
Applying(event) ==
  /\ pc = "apply"
  /\ "event" \in DOMAIN actions[idx]
  /\ actions[idx].event = event

\* the port calls made by the step
NewCalls == SubSeq(log', Len(log) + 1, Len(log'))

C4_NoneStep ==
  Applying("NONE")
    => /\ store' = store
       /\ hist' = hist
       /\ results' = results
       /\ log' = log

C4_NoneBatch ==
  (/\ pc = "done" /\ op = "add" /\ infer
   /\ actions # <<>>
   /\ \A i \in DOMAIN actions : actions[i].event = "NONE")
    => /\ outcome = "ok"
       /\ results = <<>>
       /\ store = pre.store
       /\ hist = pre.hist
       /\ \A q \in {"insert", "update", "delete", "addHistory"} : ~Called(q)

\* C4: in an inferred add, the step that applies a NONE action changes
\* neither the store, nor the history, nor the result list, and calls no
\* port; a call whose actions are all NONE returns an empty result list and
\* leaves the store and the history as they were before the call
C4_NoneIsNoop == [][C4_NoneStep]_vars /\ []C4_NoneBatch

C4_Witness ==
  /\ pc = "done" /\ op = "add" /\ infer
  /\ Len(actions) = 2
  /\ \A i \in DOMAIN actions : actions[i].event = "NONE"
  /\ DOMAIN idMap # {}
  /\ results = <<>>

\* the real ids of the candidates, as the temporary-id map has them
MappedIds == {idMap[k] : k \in DOMAIN idMap}

\* what the temporary-id map gives for the id of the action under idx
Mapped ==
  IF actions[idx].id \in DOMAIN idMap THEN idMap[actions[idx].id]
  ELSE Undefined

C5_RetrieveStep ==
  pc = "retrieve"
    => \A i \in (Len(existingMemories) + 1)..Len(existingMemories') :
         existingMemories'[i].id \in DOMAIN store

C5_DecideStep ==
  pc = "decide"
    => MappedIds' = {existingMemories[i].id : i \in DOMAIN existingMemories}

C5_ApplyStep ==
  (Applying("UPDATE") \/ Applying("DELETE"))
    => /\ \A i \in DOMAIN NewCalls :
            LET call == NewCalls[i]
            IN /\ call.port \in {"get", "update", "delete"}
                    => call.arg = Mapped
               /\ call.port \in {"update", "delete"}
                    => call.arg \in MappedIds
       /\ \A i \in (Len(results) + 1)..Len(results') :
            /\ results'[i].id = Mapped
            /\ results'[i].id \in MappedIds

C5_Results ==
  (op = "add" /\ infer)
    => /\ \A i \in DOMAIN results :
            results[i].event \in {"UPDATE", "DELETE"}
              => results[i].id \in MappedIds
       /\ \A i \in DOMAIN log :
            log[i].port \in {"update", "delete"} => log[i].arg \in MappedIds
       /\ MappedIds \subseteq DOMAIN pre.store

\* C5: in an inferred add, the temporary-id map holds exactly the ids of the
\* records the call's neighbour searches returned; every id passed to the
\* store's get, update or delete by an UPDATE or DELETE action is what the
\* map gives for the action's id, every id passed to update or delete and
\* every id of an UPDATE or DELETE result is one of the mapped ids
C5_IdentifierIntegrity ==
  /\ [][C5_RetrieveStep /\ C5_DecideStep /\ C5_ApplyStep]_vars
  /\ []C5_Results

C5_Witness ==
  /\ pc = "done" /\ op = "add" /\ infer
  /\ Len(actions) = 2
  /\ actions[1].id = randomUUID(1)
  /\ randomUUID(1) \in MappedIds
  /\ Len(results) = 1
  /\ results[1].event = "DELETE"
  /\ results[1].id = idMap["0"]

\* C9: in an inferred add, the step that applies an ADD action adds exactly
\* one record, under an id that was not in the store before the call and is
\* not the action's id, with the action's text as data; it starts the
\* history of that id with one ADD entry (previousValue null, newValue the
\* text) and appends one ADD result with that id
C9_AddStep ==
  Applying("ADD")
    => LET a == actions[idx]
       IN \E nid \in DOMAIN store' :
            /\ DOMAIN store' = DOMAIN store \cup {nid}
            /\ nid \notin DOMAIN store
            /\ nid \notin DOMAIN pre.store
            /\ nid # a.id
            /\ store'[nid].payload.data = a.text
            /\ \A id \in DOMAIN store : store'[id] = store[id]
            /\ nid \notin DOMAIN hist
            /\ DOMAIN hist' = DOMAIN hist \cup {nid}
            /\ \A id \in DOMAIN hist : hist'[id] = hist[id]
            /\ Len(hist'[nid]) = 1
            /\ hist'[nid][1].memoryId = nid
            /\ hist'[nid][1].action = "ADD"
            /\ hist'[nid][1].previousValue = Null
            /\ hist'[nid][1].newValue = a.text
            /\ Len(results') = Len(results) + 1
            /\ SubSeq(results', 1, Len(results)) = results
            /\ results'[Len(results')].id = nid
            /\ results'[Len(results')].event = "ADD"
            /\ results'[Len(results')].memory = a.text

C9_AddMintsRecord == [][C9_AddStep]_vars

C9_Witness ==
  /\ pc = "done" /\ op = "add" /\ infer
  /\ Len(results) = 2
  /\ \A i \in 1..2 : results[i].event = "ADD" /\ results[i].memory = "a"
  /\ results[1].id # results[2].id
  /\ DOMAIN pre.store # {}

\* the last element of a non-empty sequence
Last(q) == q[Len(q)]

C6_ApplyStep ==
  pc = "apply"
    => LET a == actions[idx]
       IN /\ idx' = idx + 1
          /\ actions' = actions
          /\ IF idx < Len(actions)
             THEN pc' = "apply" /\ outcome' = "pending"
             ELSE pc' = "done" /\ outcome' = "ok"
          /\ IF hist' # hist
             THEN \E id \in DOMAIN hist' :
                    /\ hist' = Put(hist, id,
                                   Append(Opt(hist, id, <<>>), Last(hist'[id])))
                    /\ Last(hist'[id]).action = a.event
                    /\ Len(results') = Len(results) + 1
                    /\ SubSeq(results', 1, Len(results)) = results
                    /\ Last(results').id = id
                    /\ Last(results').event = a.event
                    /\ Last(results').memory = a.text
             ELSE results' = results

C6_Returned ==
  (pc = "done" /\ op = "add" /\ infer /\ actions # <<>>)
    => /\ outcome = "ok"
       /\ idx = Len(actions) + 1
       /\ Len(results) <= Len(actions)

\* C6: in an inferred add every action of the list is applied, in order,
\* one per step, whatever happened to the actions before it; the call
\* returns normally after the last one; a step appends one result, with the
\* action's event and text, exactly when the action went through to its
\* history entry, and appends nothing when the action failed
C6_PartialFailureIsolation == [][C6_ApplyStep]_vars /\ []C6_Returned

C6_Witness ==
  /\ pc = "done" /\ op = "add" /\ infer
  /\ Len(actions) = 2
  /\ actions[1].event = "UPDATE"
  /\ actions[2].event = "ADD"
  /\ Called("update")
  /\ Len(results) = 1
  /\ results[1].event = "ADD"

\* the answer has no array under key, once its code fence is removed
NoArray(answer, key) ==
  \/ ~answer.wellFormed
  \/ answer.root.t # "object"
  \/ key \notin DOMAIN answer.root.fields
  \/ answer.root.fields[key].t # "array"

\* the call has just received its answer to the prompt of the given kind
Answered(kind) ==
  /\ op = "add" /\ infer
  /\ log # <<>>
  /\ Last(log) = [port |-> "llm", arg |-> kind]
  /\ response # NoResponse

\* C7: when the reconciliation answer cannot be parsed or has no memory
\* array, the inferred add returns normally with no result, and the store
\* and the history are as they were before the call
C7_NoMemoryArray ==
  (Answered("memory") /\ NoArray(response, "memory"))
    => /\ pc = "done"
       /\ outcome = "ok"
       /\ actions = <<>>
       /\ results = <<>>
       /\ store = pre.store
       /\ hist = pre.hist

\* C8: when the fact-extraction answer cannot be parsed or has no facts
\* array, the fact list is empty, nothing was embedded or searched, and the
\* call is at the reconciliation step
C8_NoFactsArray ==
  (Answered("facts") /\ NoArray(response, "facts"))
    => /\ pc = "decide"
       /\ outcome = "pending"
       /\ facts = <<>>
       /\ ~Called("embed")
       /\ ~Called("search")

\* the id of the record a successful update has just written, if any
Updated ==
  IF Applying("UPDATE") /\ Len(results') > Len(results)
  THEN {Last(results').id}
  ELSE IF pc = "idle" /\ op' = "update" /\ outcome' = "ok"
  THEN {log'[2].arg}
  ELSE {}

\* the text given to the update
UpdateText ==
  IF pc = "apply" THEN actions[idx].text ELSE log'[1].arg

\* C10: a successful UPDATE of a record, by an inferred add or by update,
\* replaces its data by the new text, keeps its createdAt, sets its
\* updatedAt, keeps each of userId, agentId, runId as it was, and appends
\* one UPDATE history entry from the old data to the new text
C10_UpdateStep ==
  \A id \in Updated :
    LET old == store[id].payload
        new == store'[id].payload
    IN /\ new.data = UpdateText
       /\ new.createdAt = old.createdAt
       /\ "updatedAt" \in DOMAIN new
       /\ new.updatedAt = now
       /\ \A k \in {"userId", "agentId", "runId"} :
            Opt(new, k, Undefined) = Opt(old, k, Undefined)
       /\ Len(hist'[id]) = Len(hist[id]) + 1
       /\ SubSeq(hist'[id], 1, Len(hist[id])) = hist[id]
       /\ Last(hist'[id]).action = "UPDATE"
       /\ Last(hist'[id]).previousValue = old.data
       /\ Last(hist'[id]).newValue = UpdateText
       /\ \A other \in DOMAIN hist \ {id} : hist'[other] = hist[other]

C10_UpdatePreserves == [][C10_UpdateStep]_vars

\* the id of the record a successful DELETE action or delete call has just
\* removed, if any
Deleted ==
  IF Applying("DELETE") /\ Len(results') > Len(results)
  THEN {Last(results').id}
  ELSE IF pc = "idle" /\ op' = "delete" /\ outcome' = "ok"
  THEN {log'[1].arg}
  ELSE {}

C11_DeleteStep ==
  \A id \in Deleted :
    /\ id \in DOMAIN store
    /\ id \notin DOMAIN store'
    /\ getResult(store', id) = <<>>
    /\ \A other \in DOMAIN store \ {id} :
         other \in DOMAIN store' /\ store'[other] = store[other]
    /\ Len(hist'[id]) = Len(hist[id]) + 1
    /\ SubSeq(hist'[id], 1, Len(hist[id])) = hist[id]
    /\ Last(hist'[id]).memoryId = id
    /\ Last(hist'[id]).action = "DELETE"
    /\ Last(hist'[id]).isDeleted = 1
    /\ Last(hist'[id]).previousValue = store[id].payload.data
    /\ Last(hist'[id]).newValue = Null
    /\ \A other \in DOMAIN hist \ {id} : hist'[other] = hist[other]

\* C11: a successful DELETE of a record, by an action of an inferred add or
\* by delete, removes the record and no other, so that get gives null for
\* its id, and appends to the history of the id one DELETE entry with
\* isDeleted = 1, the record's data as previousValue and null as newValue
C11_DeleteRemoves == [][C11_DeleteStep]_vars

C11_Witness ==
  /\ pc = "done" /\ op = "add" /\ infer
  /\ Len(results) = 1
  /\ results[1].event = "DELETE"
  /\ results[1].id \in DOMAIN pre.store \ DOMAIN store
  /\ Last(hist[results[1].id]).isDeleted = 1

\* C12: when history returns the entries of an id that was created by ADD
\* and then changed by UPDATE, every UPDATE entry comes before the ADD entry
C12_UpdateBeforeAdd ==
  (pc = "done" /\ op = "history" /\ outcome = "ok")
    => \A i, j \in DOMAIN results :
         (results[i].action = "ADD" /\ results[j].action = "UPDATE") => j < i

\* the call just made on the history manager
HistoryCall(port) == op = port /\ log # <<>> /\ log[1].port = port

\* C13: getHistory of a memoryId returns entries recorded for that id only,
\* all of them (up to the window), with createdAt descending: no entry is
\* older than the entry that follows it
C13_GetHistorySorted ==
  HistoryCall("getHistory")
    => LET id == log[1].arg
           recorded == IF id \in DOMAIN pre.hist THEN pre.hist[id] ELSE <<>>
       IN /\ \A i \in DOMAIN results :
               /\ results[i].memoryId = id
               /\ \E k \in DOMAIN recorded : recorded[k] = results[i]
          /\ Len(results) = IF Len(recorded) < 100 THEN Len(recorded) ELSE 100
          /\ \A i \in 1..(Len(results) - 1) :
               results[i].createdAt >= results[i + 1].createdAt

C13_Witness ==
  /\ HistoryCall("getHistory")
  /\ Len(results) = 2
  /\ results # pre.hist[log[1].arg]
  /\ results[1].createdAt > results[2].createdAt
  /\ DOMAIN pre.hist = HistoryIds

\* the entries of h1 are all in h2, under the same id
KeepsEntries(h1, h2) ==
  \A id \in DOMAIN h1 :
    /\ id \in DOMAIN h2
    /\ Len(h2[id]) >= Len(h1[id])
    /\ \A i \in DOMAIN h1[id] : \E k \in DOMAIN h2[id] : h2[id][k] = h1[id][i]

C20_HistoryStep ==
  /\ ops' = ops + 1
       => LET id == log'[1].arg
              before == IF id \in DOMAIN hist THEN hist[id] ELSE <<>>
          IN /\ DOMAIN hist' = DOMAIN hist \cup {id}
             /\ Len(hist'[id]) = Len(before) + 1
             /\ SubSeq(hist'[id], 1, Len(before)) = before
             /\ Last(hist'[id]).memoryId = id
             /\ \A other \in DOMAIN hist \ {id} : hist'[other] = hist[other]
  /\ \/ KeepsEntries(hist, hist')
     \/ (op' = "histReset" /\ log' # log)
  /\ (op' = "histReset" /\ hist' # hist)
       => \A id \in HistoryIds : getHistory(hist', id) = <<>>

\* C20: an addHistory call for a memoryId appends one entry to the history
\* of that id and leaves the entries recorded before, and the history of
\* every other id, as they were; no call but reset removes an entry, and
\* after reset getHistory is empty for every id
C20_HistoryIsolation == [][C20_HistoryStep]_vars

C20_Witness ==
  /\ HistoryCall("addHistory")
  /\ DOMAIN hist = HistoryIds
  /\ Len(hist["m1"]) = 2
  /\ hist["m1"][1].createdAt < hist["m1"][2].createdAt

\* the id given to the update or delete call in flight
CallTarget == IF op = "update" THEN log[2].arg ELSE log[1].arg

\* C14: update and delete on an id that is not in the store end with a
\* not-found error, and the store and the history are as before the call
C14_NotFound ==
  (/\ pc = "done" /\ op \in {"update", "delete"}
   /\ CallTarget \notin DOMAIN pre.store)
    => /\ outcome = "notfound"
       /\ store = pre.store
       /\ hist = pre.hist

C14_Witness ==
  /\ pc = "done" /\ op = "update"
  /\ CallTarget \notin DOMAIN pre.store
  /\ outcome = "notfound"
  /\ DOMAIN store # {}

\* C15: when deleteAll with a non-empty scope has returned, no record that
\* matched the scope before the call is in the store, and the history of
\* each of them ends with a DELETE entry with isDeleted = 1
C15_DeleteAllDeletesAll ==
  (pc = "done" /\ op = "deleteAll" /\ outcome = "ok")
    => \A id \in DOMAIN pre.store :
         (\A k \in DOMAIN filters :
            /\ k \in DOMAIN pre.store[id].payload
            /\ pre.store[id].payload[k] = filters[k])
           => /\ id \notin DOMAIN store
              /\ Last(hist[id]).action = "DELETE"
              /\ Last(hist[id]).isDeleted = 1

ReadOps == {"get", "getAll", "search", "history"}
WritePorts == {"insert", "update", "delete", "deleteCol", "addHistory", "histReset"}

\* the same entries under the same ids, whatever their order
SameEntries(h1, h2) ==
  /\ DOMAIN h1 = DOMAIN h2
  /\ KeepsEntries(h1, h2)
  /\ KeepsEntries(h2, h1)

\* C17: get of an id that is not in the store returns null without an error;
\* get, getAll, search and history call no writing port, leave every store
\* record as it was and leave every history with the entries it had
C17_ReadOnly ==
  (pc = "done" /\ op \in ReadOps)
    => /\ store = pre.store
       /\ SameEntries(pre.hist, hist)
       /\ \A p \in WritePorts : ~Called(p)
       /\ (op = "get" /\ log[1].arg \notin DOMAIN pre.store)
            => (outcome = "ok" /\ results = <<>>)

C17_Witness ==
  /\ pc = "done" /\ op = "get" /\ outcome = "ok"
  /\ log[1].arg \notin DOMAIN pre.store
  /\ DOMAIN pre.store # {}
  /\ results = <<>>
  /\ HistSize(hist) > 0

CanonicalKeys == {"hash", "data", "createdAt", "updatedAt"}
ViewOps == {"search", "get", "getAll"}

\* the canonical fields and the metadata map of view v of stored payload p
ProjectsRecord(v, p) ==
  /\ v.memory = p.data
  /\ v.hash = p.hash
  /\ v.createdAt = p.createdAt
  /\ "updatedAt" \in DOMAIN v
  /\ "updatedAt" \in DOMAIN p => v.updatedAt = p.updatedAt
  /\ ("score" \in DOMAIN v) = (op = "search")
  /\ DOMAIN v.metadata = DOMAIN p \ (ScopeKeys \cup CanonicalKeys)
  /\ \A k \in DOMAIN v.metadata : v.metadata[k] = p[k]

Viewed == pc = "done" /\ op \in ViewOps /\ outcome = "ok"

\* C18 (as stated): every view returned by search, get and getAll is of a
\* stored record, has that record's canonical fields, carries each of
\* userId, agentId, runId exactly when the record has that attribute, and
\* its metadata map holds exactly the record's other attributes
C18_Projection ==
  Viewed
    => \A i \in DOMAIN results :
         LET v == results[i]
             p == store[v.id].payload
         IN /\ v.id \in DOMAIN store
            /\ ProjectsRecord(v, p)
            /\ \A k \in ScopeKeys :
                 /\ (k \in DOMAIN v) = (k \in DOMAIN p)
                 /\ k \in DOMAIN v => v[k] = p[k]

\* C18 (amended): as above, but the view carries userId, agentId, runId
\* exactly when the record has a non-empty value for it
C18_ProjectionNonEmpty ==
  Viewed
    => \A i \in DOMAIN results :
         LET v == results[i]
             p == store[v.id].payload
         IN /\ v.id \in DOMAIN store
            /\ ProjectsRecord(v, p)
            /\ \A k \in ScopeKeys :
                 /\ (k \in DOMAIN v) = (k \in DOMAIN p /\ p[k] # "")
                 /\ k \in DOMAIN v => v[k] = p[k]

C18_Witness ==
  /\ Viewed
  /\ op = "search"
  /\ \E i \in DOMAIN results :
       /\ results[i].score = 1
       /\ "agentId" \in DOMAIN results[i]
       /\ "userId" \notin DOMAIN results[i]
       /\ "userId" \in DOMAIN store[results[i].id].payload

\* C19: when add has returned, every record it created carries each scope
\* field of the call's resolved scope filter, with the same value
C19_ScopeTagged ==
  (pc = "done" /\ op = "add" /\ outcome = "ok")
    => \A id \in DOMAIN store \ DOMAIN pre.store :
         \A k \in DOMAIN filters \cap ScopeKeys :
           /\ k \in DOMAIN store[id].payload
           /\ store[id].payload[k] = filters[k]

\* C21: in a Memory constructed without a history manager the manager
\* holds no entry whatever was called; getHistory and history return the
\* empty list for every id; addHistory and reset end without an effect, and
\* add, update of a stored record and delete of a stored record succeed
C21_NoopHistory ==
  /\ hist = EmptyObj
  /\ op \in {"getHistory", "history"} => results = <<>>
  /\ (pc = "done" /\ op = "history") => outcome = "ok"
  /\ (pc = "done" /\ op = "add") => outcome = "ok"
  /\ (pc = "done" /\ op \in {"update", "delete"}
        /\ CallTarget \in DOMAIN pre.store) => outcome = "ok"

C21_Witness ==
  /\ pc = "done" /\ op = "history" /\ outcome = "ok"
  /\ log[1].arg \in DOMAIN store
  /\ store[log[1].arg].payload.data = "b"
  /\ results = <<>>

\* C22: an inferred add calls the Generation Port first, for the facts; its
\* second call of that port asks for the actions and comes after nothing
\* but embeddings and searches; no store or history write comes before the
\* second call; there is no third call, and an add that returns has made
\* both
C22_TwoRequestsInSequence ==
  (op = "add" /\ infer)
    => /\ Calls("llm") <= 2
       /\ log # <<>> => (log[1].port = "llm" /\ log[1].arg = "facts")
       /\ \A i \in DOMAIN log :
            /\ (i > 1 /\ log[i].port = "llm")
                 => /\ log[i].arg = "memory"
                    /\ \A k \in 2..(i - 1) : log[k].port \in {"embed", "search"}
            /\ log[i].port \in WritePorts
                 => \E k \in 2..(i - 1) : log[k].port = "llm"
       /\ (pc = "done" /\ outcome = "ok") => Calls("llm") = 2

C22_Witness ==
  /\ op = "add" /\ infer /\ pc = "done" /\ outcome = "ok"
  /\ Calls("llm") = 2
  /\ Called("search")
  /\ Called("update")
  /\ Called("insert")

\* the real ids of a list of candidates
IdsOf(mems) == {mems[i].id : i \in DOMAIN mems}

\* where an id occurs first in a list of candidates
FirstAt(mems, id) ==
  CHOOSE i \in DOMAIN mems :
    mems[i].id = id /\ \A k \in 1..(i - 1) : mems[k].id # id

\* the records of the store that match the scope filter of the call
Neighbours == {id \in DOMAIN store : Matches(store[id].payload, filters)}

\* the retrieval of one fact appends its neighbours: at most 5, as many as
\* there are up to 5, each a different matching record with its data
C23_RetrieveStep ==
  pc = "retrieve"
    => LET old == Len(existingMemories)
           got == Len(existingMemories') - old
       IN /\ SubSeq(existingMemories', 1, old) = existingMemories
          /\ got <= 5
          /\ got = (IF Cardinality(Neighbours) < 5
                    THEN Cardinality(Neighbours) ELSE 5)
          /\ \A i \in (old + 1)..(old + got) :
               /\ existingMemories'[i].id \in Neighbours
               /\ existingMemories'[i].text
                    = store[existingMemories'[i].id].payload.data
               /\ \A k \in (old + 1)..(i - 1) :
                    existingMemories'[k].id # existingMemories'[i].id

\* the step that builds the map: n distinct retrieved ids get the temporary
\* ids "0".."n-1" in the order of their first occurrence, and the
\* candidates handed to the reconciliation prompt carry the temporary ids
C23_DecideStep ==
  pc = "decide"
    => LET raw == existingMemories
           n == Cardinality(IdsOf(raw))
           temp == {ToString(i) : i \in 0..(n - 1)}
       IN /\ DOMAIN idMap' = temp
          /\ {idMap'[k] : k \in temp} = IdsOf(raw)
          /\ \A k1, k2 \in temp : idMap'[k1] = idMap'[k2] => k1 = k2
          /\ \A i1, i2 \in 0..(n - 1) :
               i1 < i2 => FirstAt(raw, idMap'[ToString(i1)])
                            < FirstAt(raw, idMap'[ToString(i2)])
          /\ Len(existingMemories') = n
          /\ \A i \in 1..n :
               /\ existingMemories'[i].id = ToString(i - 1)
               /\ existingMemories'[i].id \notin IdsOf(raw)
               /\ existingMemories'[i].text
                    = raw[FirstAt(raw, idMap'[ToString(i - 1)])].text

\* C23: in an inferred add the candidates are the neighbours of each fact
\* (at most 5 per fact), de-duplicated by real id with the first occurrence
\* kept; they get the temporary ids "0".."n-1" in that order, the map from
\* temporary to real id is a bijection onto the retrieved ids, and the
\* candidates of the reconciliation prompt carry temporary ids only
C23_TemporaryIds == [][C23_RetrieveStep /\ C23_DecideStep]_vars

C23_Witness ==
  /\ pc \in {"apply", "done"} /\ op = "add" /\ infer
  /\ Calls("search") = 2
  /\ DOMAIN idMap = {"0", "1"}
  /\ idMap["0"] = randomUUID(2)

\* the action under idx is an UPDATE or DELETE whose id is no key of the map
Unmapped ==
  /\ (Applying("UPDATE") \/ Applying("DELETE"))
  /\ Opt(actions[idx], "id", Undefined) \notin DOMAIN idMap

C24_UnmappedStep ==
  Unmapped
    => /\ store' = store
       /\ hist' = hist
       /\ results' = results
       /\ \A i \in DOMAIN NewCalls : NewCalls[i].port \notin WritePorts
       /\ idx' = idx + 1
       /\ IF idx < Len(actions)
          THEN pc' = "apply" /\ outcome' = "pending"
          ELSE pc' = "done" /\ outcome' = "ok"

\* C24: the step that applies an UPDATE or DELETE action whose id is no key
\* of the temporary-id map changes no record and no history, calls no
\* writing port, adds no result, and the call goes on to its next action or
\* returns normally
C24_UnmappedActionFails == [][C24_UnmappedStep]_vars

C24_Witness ==
  /\ pc = "done" /\ op = "add" /\ infer /\ outcome = "ok"
  /\ Len(actions) = 2
  /\ actions[1].event = "UPDATE"
  /\ actions[1].id \notin DOMAIN idMap
  /\ DOMAIN idMap # {}
  /\ actions[2].event = "ADD"
  /\ Len(results) = 1
  /\ results[1].event = "ADD"

StoreWrites == {"insert", "update", "delete"}

\* the store write the history entry of an action records
WriteOf(action) ==
  CASE action = "ADD" -> "insert"
    [] action = "UPDATE" -> "update"
    [] action = "DELETE" -> "delete"
    [] OTHER -> Undefined

\* the store after the step shows the write of the port on the id
Written(port, id) ==
  CASE port = "insert" -> id \in DOMAIN store' \ DOMAIN store
    [] port = "update" -> id \in DOMAIN store /\ id \in DOMAIN store'
    [] port = "delete" -> id \in DOMAIN store \ DOMAIN store'
    [] OTHER -> FALSE

C25_Step ==
  /\ \A i \in DOMAIN NewCalls :
       NewCalls[i].port = "addHistory"
         => /\ i > 1
            /\ NewCalls[i - 1].port \in StoreWrites
            /\ NewCalls[i - 1].arg = NewCalls[i].arg
            /\ Written(NewCalls[i - 1].port, NewCalls[i].arg)
  /\ hist' # hist
       => \E id \in DOMAIN hist' :
            LET e == Last(hist'[id])
            IN /\ hist' = Put(hist, id, Append(Opt(hist, id, <<>>), e))
               /\ Len(NewCalls) >= 2
               /\ Last(NewCalls) = [port |-> "addHistory", arg |-> id]
               /\ NewCalls[Len(NewCalls) - 1] = [port |-> WriteOf(e.action), arg |-> id]
               /\ Written(WriteOf(e.action), id)
               /\ e.action # "DELETE" => store'[id].payload.data = e.newValue
               /\ e.action # "ADD" => store[id].payload.data = e.previousValue
  /\ (NewCalls # <<>> /\ Last(NewCalls).port \in StoreWrites) => hist' = hist

\* C25: in every step of the engine, addHistory is called only right after
\* the insert, update or delete of the same id, and only when that write
\* went through; every entry appended records a write the store shows; a
\* step whose store write failed appends no entry
C25_StoreBeforeHistory == [][C25_Step]_vars

C25_Witness ==
  /\ pc = "done" /\ op = "add" /\ infer
  /\ Len(actions) = 2
  /\ Len(results) = 1
  /\ Calls("insert") = 2
  /\ Calls("addHistory") = 1
  /\ Last(log).port = "insert"
  /\ HistSize(hist) = HistSize(pre.hist) + 1

\* the step is a request to the Generation Port that ends without an answer
LlmThrew == pc \in {"extract", "decide"} /\ response' = NoResponse

\* the step is a retrieval that ends on its embedding, or on its search
\* without having taken the neighbours
EmbedThrew == pc = "retrieve" /\ Last(log').port = "embed"
SearchThrew == pc = "retrieve" /\ Last(log').port = "search" /\ idx' = idx

C26_Step ==
  (op = "add" /\ infer /\ pc \in {"extract", "retrieve", "decide"})
    => /\ (LlmThrew \/ EmbedThrew \/ SearchThrew)
            => (pc' = "done" /\ outcome' = "error")
       /\ outcome' = "error"
            => /\ store' = pre.store
               /\ hist' = pre.hist
               /\ results' = <<>>
               /\ \A i \in DOMAIN log' : log'[i].port \notin WritePorts

\* C26: in an inferred add, a request to the Generation Port that throws,
\* and an embedding or a neighbour search that throws while candidates are
\* retrieved, end the call with that error; the store and the history are
\* then as they were when the call started and no writing port was called
C26_FatalBeforeApply == [][C26_Step]_vars

C26_Witness ==
  /\ pc = "done" /\ op = "add" /\ infer /\ outcome = "error"
  /\ Calls("llm") = 1
  /\ Last(log).port = "search"
  /\ DOMAIN pre.store # {}
  /\ store = pre.store

\* the number of times e occurs in q
Count(q, e) == Cardinality({i \in DOMAIN q : q[i] = e})

\* C27: history of an id with more than 100 recorded entries returns 100
\* entries, and they are the 100 entries recorded last
C27_WindowMostRecent ==
  (/\ pc = "done" /\ op = "history" /\ outcome = "ok"
   /\ log[1].arg \in DOMAIN pre.hist
   /\ Len(pre.hist[log[1].arg]) > 100)
    => LET all == pre.hist[log[1].arg]
           recent == SubSeq(all, Len(all) - 99, Len(all))
       IN /\ Len(results) = 100
          /\ \A i \in DOMAIN results :
               Count(results, results[i]) = Count(recent, results[i])

\* C28: every record of the store carries the fingerprint of the data it
\* holds, whatever calls of add, update, delete, deleteAll and reset were made
C28_ContentHash ==
  \A id \in DOMAIN store :
    /\ "hash" \in DOMAIN store[id].payload
    /\ store[id].payload.hash = md5(store[id].payload.data)

C28_Witness ==
  \E id \in DOMAIN store :
    /\ store[id].payload.data = "b"
    /\ store[id].payload.hash = md5("b")
    /\ id \in DOMAIN hist
    /\ Len(hist[id]) = 2
    /\ hist[id][1].newValue = "a"

\* the calls of the Embedding Port made by the step
NewEmbeds == {i \in DOMAIN NewCalls : NewCalls[i].port = "embed"}

C29_Step ==
  /\ (pc = "idle" /\ op' = "add") => newEmbeddings' = {}
  /\ pc = "retrieve"
       => /\ NewCalls[1] = [port |-> "embed", arg |-> facts[idx]]
          /\ NewEmbeds = {1}
          /\ newEmbeddings' = newEmbeddings \cup {facts[idx]}
  /\ (Applying("ADD") \/ Applying("UPDATE"))
       => LET text == actions[idx].text
          IN /\ text \in Range(facts) => NewEmbeds = {}
             /\ \A i \in NewEmbeds :
                  /\ NewCalls[i].arg = text
                  /\ text \notin Range(facts)
                  /\ NewEmbeds = {i}
             /\ newEmbeddings' = newEmbeddings

C29_Retrieved ==
  (op = "add" /\ infer /\ pc \in {"decide", "apply"})
    => /\ Calls("embed") >= Len(facts)
       /\ pc = "decide" => Calls("embed") = Len(facts)
       /\ newEmbeddings = Range(facts)

\* C29: an inferred add starts with an empty embedding cache; the retrieval
\* of a fact embeds it once and caches it; an ADD or UPDATE action whose
\* text is one of the facts calls the Embedding Port no more, and an action
\* that calls it does so once, for its own text, which is none of the facts
C29_EmbeddingCache == [][C29_Step]_vars /\ []C29_Retrieved

C29_Witness ==
  /\ pc = "done" /\ op = "add" /\ infer /\ outcome = "ok"
  /\ DOMAIN pre.store # {}
  /\ facts = <<"a">>
  /\ Len(actions) = 1
  /\ actions[1].event = "ADD"
  /\ actions[1].text = "a"
  /\ Called("insert")
  /\ Calls("embed") = 1

\* C30: the entries of every id, in the order they were appended, start
\* with an ADD whose previousValue is null and continue each from the
\* newValue of the one before; the last entry of an id in the store carries
\* the record's data and the last entry of a removed id is a DELETE; every
\* record of the store has entries
C30_HistoryChain ==
  /\ DOMAIN store \subseteq DOMAIN hist
  /\ \A id \in DOMAIN hist :
       LET q == hist[id]
       IN /\ Len(q) >= 1
          /\ q[1].action = "ADD"
          /\ q[1].previousValue = Null
          /\ \A i \in 2..Len(q) : q[i].previousValue = q[i - 1].newValue
          /\ id \in DOMAIN store => Last(q).newValue = store[id].payload.data
          /\ id \notin DOMAIN store => Last(q).action = "DELETE"

C30_Witness ==
  \E id \in DOMAIN hist, kept \in DOMAIN store :
    /\ id \notin DOMAIN store
    /\ Len(hist[id]) = 3
    /\ hist[id][2].action = "UPDATE"
    /\ hist[id][2].newValue = "b"
    /\ hist[id][3].action = "DELETE"
    /\ hist[id][3].previousValue = "b"
    /\ Len(hist[kept]) = 1

C31_Step ==
  (pc = "apply" /\ Len(results') = Len(results)) => store' = store

\* C31: in an inferred add, the step of an action that adds no item to the
\* result list leaves the store as it was, also when the history log throws
C31_NoUnreportedChange == [][C31_Step]_vars

\* C35: an inferred add whose extraction gave no fact returns an empty
\* list and leaves the store and the history as they were
C35_NoFactsNoChange ==
  (pc = "done" /\ op = "add" /\ infer /\ outcome = "ok" /\ facts = <<>>)
    => /\ store = pre.store
       /\ hist = pre.hist
       /\ results = <<>>

C36_Step ==
  (Applying("UPDATE") /\ Len(results') = Len(results) + 1)
    => LET item == Last(results')
       IN /\ item.event = "UPDATE"
          /\ item.previousMemory = store[item.id].payload.data
          /\ item.previousMemory = Last(hist'[item.id]).previousValue

\* C36: the result an UPDATE action of an inferred add reports carries, as
\* previousMemory, the data the record had in the store right before the
\* update, which is the previousValue of the history entry of that update
C36_PreviousMemory == [][C36_Step]_vars

\* C34: no step of add or search changes the filters object or the
\* metadata object the caller passed, so a call with no scope attribute is
\* rejected and no record carries a scope attribute its call did not give
C34_OptionsUnchanged ==
  [][/\ caller' = caller
     /\ (pc = "idle" /\ op' \in {"add", "search"} /\ outcome' # "validation")
          => \E k \in ScopeKeys :
               Truthy(filters', k) /\ ~Truthy(caller.filters, k)]_vars

\* C37: on the Qdrant store, an add of a text without inference made after
\* a reset succeeds like any other, and so does a get: it returns a record
\* the store holds
C37_UsableAfterReset ==
  /\ (pc = "done" /\ op = "add")
       => /\ outcome = "ok"
          /\ Len(results) = 1
          /\ results[1].id \in DOMAIN store
  /\ (pc = "done" /\ op = "get")
       => /\ outcome = "ok"
          /\ log[1].arg \in DOMAIN store => Len(results) = 1

\* C32: the id of a delete call that has returned successfully is not in
\* the store, whatever update of the same id runs beside it
C32_DeletedStaysDeleted ==
  \A t \in DOMAIN tasks :
    (tasks[t].call = "delete" /\ tasks[t].outcome = "ok")
      => tasks[t].id \notin DOMAIN store

\* C33: the history of an id has at most one DELETE entry, and at most one
\* of the concurrent calls that delete the id reports it deleted
C33_OneDeletion ==
  \A id \in DOMAIN hist :
    /\ Cardinality({i \in DOMAIN hist[id] : hist[id][i].action = "DELETE"}) <= 1
    /\ Cardinality({t \in DOMAIN tasks :
                      /\ tasks[t].id = id
                      /\ tasks[t].call \in {"delete", "deleteAll", "addDELETE"}
                      /\ tasks[t].outcome = "ok"}) <= 1

\* C38: since the last deleteCol at most one createIndex has been requested,
\* and no call has failed on a createIndex the server refused
C38_InitialisedOnce ==
  /\ backend.creates <= 1
  /\ \A t \in DOMAIN tasks : tasks[t].outcome # "conflict"

====
